---- MODULE Spec2Model ----
(***************************************************************************)
(* A model of bound's attribution pipeline (yodaiken/bound):               *)
(*   owner.rs    CommitWithCodeownersIterator, AuthorMembership            *)
(*   co.rs       the uncached resolver and its author_matches              *)
(*   analyze.rs  analyze_by_owner, analyze_by_contributor                  *)
(*                                                                         *)
(* Conventions.  Option<T> is a sequence of length at most one: None is    *)
(* <<>> and Some(x) is <<x>>.  A HashMap is a function whose DOMAIN is the *)
(* set of keys inserted so far.  An f64 weight is an exact rational with   *)
(* the fixed denominator WeightScale (rounding is not modelled).           *)
(***************************************************************************)
EXTENDS Integers, Sequences, FiniteSets, TLC

VARIABLES
    \* ---- CommitWithCodeownersIterator and the history it is fed ----
    order,            \* "asc": oldest first; "desc": newest first (git log)
    npulled,          \* commits pulled from commit_iter so far
    cur,              \* Option<CommitInfo>: the commit pulled last
    files,            \* ownership files of the repository at commit cur
    cached_owners,    \* Option<codeowners::Owners>
    prev_cached,      \* cached_owners before the last call of next()
    out,              \* what the last call of next() returned
    fetchLog,         \* per pulled commit: did next() read the ownership file
    touchLog,         \* per pulled commit: does it change an ownership path
    halted,           \* the consumer has returned on an Err item
    probes,           \* what git show gave to each read of the last next()
    \* ---- parameters of one analysis run ----
    adjusted,         \* the adjusted flag
    memberships,      \* Option<AuthorMembership>
    rules,            \* the rule set the commits of the run were enriched with
    ncommits,         \* commits folded so far
    last,             \* Option<CommitInfoWithCodeowner>: the commit folded last
    \* ---- analyze_by_owner ----
    owners,               \* HashMap<String, OwnerInfo>
    team_contributors,    \* owner -> (name, email) -> (changes, commits)
    outside_contributors,
    prev_owners,          \* owners before the last commit was folded
    seen_rows,            \* owner -> (file-change row, owner) pairs fed so far
    authored,             \* the <<(name, email), owner>> pairs of the changes fed
    owner_report,         \* Option<Vec<OwnerInfo>>: what analyze_by_owner returned
    \* ---- analyze_by_contributor ----
    contributors,         \* (name, email) -> Vec<ContributionsByOwnerInfo>
    prev_contributors,
    seen_keys,            \* the (name, email) pairs of the commits with a change
    contributor_report,   \* Option<Vec<ContributorInfo>>: the returned report
    \* ---- AuthorMembership queries ----
    roster,           \* the Vec<AuthorCodeownerMemberships> given to new()
    query,            \* Option<[name, email, codeowner]>: the last query
    answer,           \* is_codeowner's result for query
    \* ---- both reports over one commit stream ----
    stripped,         \* analyze_by_owner's state over the same commits with the
                      \* changes matched by no rule left out
    flipped,          \* both analyses over the same commits, adjusted negated
    \* ---- CommitIterator ----
    blocks,           \* the input of the LineReader, block by block
    pos,              \* lines the iterator has consumed
    results,          \* what the calls of next() returned, oldest first
    \* ---- update_top_contributors ----
    rank_team,        \* Option<pool>: team_contributors.get(owner)
    rank_outside,     \* Option<pool>: outside_contributors.get(owner)
    rank_info,        \* the OwnerInfo the lists are written to
    rank_step,        \* calls of update_top_contributors made for the owner
    \* ---- the roster file ----
    tsv_roster,       \* the memberships given to write_memberships_to_tsv
    tsv_file,         \* Option<text>: the content of the file at `path`
    tsv_read,         \* Option<result> of read_memberships_from_tsv
    tsv_input,        \* Option<text>: the content that call has read
    \* ---- the commits at the ends of a date range ----
    repo,             \* the repository: parents and commit time per commit, HEAD
    date,             \* the date given to the two searches
    first_found,      \* Option<result> of find_first_commit_on_or_after_date
    last_found        \* Option<result> of find_last_commit_before_date

resolverVars == <<order, npulled, cur, files, cached_owners, prev_cached, out,
                  fetchLog, touchLog, halted, probes>>
runVars == <<adjusted, memberships, rules, ncommits, last>>
ownerVars == <<owners, team_contributors, outside_contributors, prev_owners,
               seen_rows, authored, owner_report>>
contributorVars == <<contributors, prev_contributors, seen_keys,
                     contributor_report>>
memberVars == <<roster, query, answer>>
pairedVars == <<stripped, flipped>>
parserVars == <<blocks, pos, results>>
rankVars == <<rank_team, rank_outside, rank_info, rank_step>>
tsvVars == <<tsv_roster, tsv_file, tsv_read, tsv_input>>
findVars == <<repo, date, first_found, last_found>>
otherVars == <<pairedVars, parserVars, rankVars, tsvVars, findVars>>
vars == <<resolverVars, runVars, ownerVars, contributorVars, memberVars,
          otherVars>>

-----------------------------------------------------------------------------
(* Bounds of the model. *)
MaxHistory == 3       \* commits of a history fed to the resolver
MaxCommits == 2       \* commits folded by one analysis run
MaxRoster == 2        \* entries of a roster given to AuthorMembership::new
MaxBlocks == 2        \* commit blocks of an input given to CommitIterator
MaxPool == 12         \* contributors of one pool of an owner

-----------------------------------------------------------------------------
(* Generic helpers. *)
None == <<>>
Some(x) == <<x>>
IsSome(o) == Len(o) = 1
Unwrap(o) == o[1]

Range(s) == {s[i] : i \in 1..Len(s)}

RECURSIVE SumSeq(_)
SumSeq(s) == IF s = <<>> THEN 0 ELSE Head(s) + SumSeq(Tail(s))

Max(a, b) == IF a >= b THEN a ELSE b

RECURSIVE Gcd(_, _)
Gcd(a, b) == IF b = 0 THEN a ELSE Gcd(b, a % b)

\* HashMap helpers: get with a default, and insert.
Get(f, k, d) == IF k \in DOMAIN f THEN f[k] ELSE d
Put(f, k, v) == [x \in DOMAIN f \cup {k} |-> IF x = k THEN v ELSE f[x]]
EmptyMap == <<>>

RECURSIVE LcmUpTo(_)
LcmUpTo(n) == IF n <= 1 THEN 1
              ELSE LET l == LcmUpTo(n - 1) IN (l * n) \div Gcd(l, n)

-----------------------------------------------------------------------------
(* The ownership file and its rule sets. *)

\* owner.rs:9
CODEOWNERS_LOCATIONS == <<".github/CODEOWNERS", "CODEOWNERS", "docs/CODEOWNERS">>

Locations == Range(CODEOWNERS_LOCATIONS)

\* A rule set is the list of (pattern, owners) lines of an ownership file.
RulesA == << [pattern |-> "*",    owners |-> <<"@team1">>],
             [pattern |-> "b.go", owners |-> <<"@team1", "@team2">>] >>
RulesB == << [pattern |-> "a.go", owners |-> <<"@team2">>] >>
RulesC == << [pattern |-> "*",    owners |-> <<"@team2">>],
             [pattern |-> "b.go", owners |-> <<>>] >>
EmptyRules == << >>

\* Contents an ownership file can have; NoFile: the path does not exist.
NoFile == None
FileContents == {Some(RulesA), Some(RulesB)}

OwnerNames == {"@team1", "@team2"}

Matches(pattern, path) == pattern = "*" \/ pattern = path

\* owners.of(path): the owners of the last rule that matches, None if none does.
Of(rs, path) ==
    LET hits == {i \in 1..Len(rs) : Matches(rs[i].pattern, path)}
    IN IF hits = {} THEN None
       ELSE Some(rs[CHOOSE i \in hits : \A j \in hits : j <= i].owners)

\* get_codeowners_at_commit: the first location that exists, in priority order.
get_codeowners_at_commit(fs) ==
    LET found == {i \in 1..Len(CODEOWNERS_LOCATIONS) :
                     IsSome(fs[CODEOWNERS_LOCATIONS[i]])}
    IN IF found = {} THEN None
       ELSE fs[CODEOWNERS_LOCATIONS[CHOOSE i \in found : \A j \in found : i <= j]]

\* get_owners_at_commit on a successful read: a missing file parses as "".
get_owners_at_commit(fs) ==
    LET codeowners_str == get_codeowners_at_commit(fs)
    IN IF IsSome(codeowners_str) THEN Unwrap(codeowners_str) ELSE EmptyRules

-----------------------------------------------------------------------------
(* Commits. *)

Authors == { [name |-> "Alice", email |-> "alice@x.com"],
             [name |-> "Bob",   email |-> "bob@x.com"] }

\* The changes of a commit list each changed path once, in path order
\* (git log --numstat).
RECURSIVE ChangeLists(_, _)
ChangeLists(ps, stats) ==
    IF ps = <<>> THEN {<<>>}
    ELSE LET rest == ChangeLists(Tail(ps), stats)
         IN rest \cup
            { <<[path |-> Head(ps), insertions |-> s[1], deletions |-> s[2]]>> \o r :
                  s \in stats, r \in rest }

CommitsOver(authors, ps, stats, id) ==
    { [id |-> id, timestamp |-> id, author_name |-> a.name,
       author_email |-> a.email, file_changes |-> fc] :
          a \in authors, fc \in ChangeLists(ps, stats) }

-----------------------------------------------------------------------------
(* AuthorMembership (owner.rs). *)

\* AuthorMembership::new: email -> owners and name -> owners, absent fields
\* skipped, keys kept as written.
AuthorMembershipNew(ms) ==
    LET emails == {Unwrap(ms[i].author_email) :
                      i \in {j \in 1..Len(ms) : IsSome(ms[j].author_email)}}
        names  == {Unwrap(ms[i].author_name) :
                      i \in {j \in 1..Len(ms) : IsSome(ms[j].author_name)}}
    IN [email_to_codeowner |->
            [e \in emails |-> {ms[i].codeowner :
                i \in {j \in 1..Len(ms) : ms[j].author_email = Some(e)}}],
        name_to_codeowner |->
            [n \in names |-> {ms[i].codeowner :
                i \in {j \in 1..Len(ms) : ms[j].author_name = Some(n)}}]]

get_codeowners_for_author(m, author_name, author_email) ==
    (IF author_email \in DOMAIN m.email_to_codeowner
        THEN m.email_to_codeowner[author_email] ELSE {})
    \cup
    (IF author_name \in DOMAIN m.name_to_codeowner
        THEN m.name_to_codeowner[author_name] ELSE {})

is_codeowner(m, author_name, author_email, codeowner) ==
    codeowner \in get_codeowners_for_author(m, author_name, author_email)

is_author_codeowner(m, owner_list, author_name, author_email) ==
    \E i \in 1..Len(owner_list) :
        is_codeowner(m, author_name, author_email, owner_list[i])

-----------------------------------------------------------------------------
(* Enrichment of a commit (owner.rs, the closure of next()). *)

EnrichChange(change, rs, m, author_name, author_email) ==
    LET file_owners == Of(rs, change.path)
        unwrap_or_default == IF IsSome(file_owners) THEN Unwrap(file_owners) ELSE <<>>
    IN [insertions |-> change.insertions,
        deletions |-> change.deletions,
        codeowners |-> file_owners,
        author_is_codeowner |->
            IF IsSome(m)
            THEN Some(is_author_codeowner(Unwrap(m), unwrap_or_default,
                                          author_name, author_email))
            ELSE None,
        path |-> change.path]

EnrichCommit(commit, rs, m) ==
    [id |-> commit.id,
     author_name |-> commit.author_name,
     author_email |-> commit.author_email,
     timestamp |-> commit.timestamp,
     file_changes |->
        [i \in 1..Len(commit.file_changes) |->
            EnrichChange(commit.file_changes[i], rs, m,
                         commit.author_name, commit.author_email)]]

\* The roster of the analysis runs: Alice is in @team1 by email, Bob in
\* @team2 by name.
RunRoster ==
    << [author_email |-> Some("alice@x.com"), author_name |-> None,
        codeowner |-> "@team1"],
       [author_email |-> None, author_name |-> Some("Bob"),
        codeowner |-> "@team2"] >>

\* git_log_commits_with_codeowners: memberships.map(AuthorMembership::new)
MembershipOptions == {None, Some(AuthorMembershipNew(RunRoster))}

-----------------------------------------------------------------------------
(* CommitWithCodeownersIterator over a linear history. *)

ResolverPaths == <<".github/CODEOWNERS", "CODEOWNERS", "a.go", "docs/CODEOWNERS">>
ResolverStats == {<<1, 0>>}
ResolverAuthors == {[name |-> "Alice", email |-> "alice@x.com"]}
ResolverCommits(id) ==
    CommitsOver(ResolverAuthors, ResolverPaths, ResolverStats, id)

\* The ownership files of a repository at one commit.  The location of
\* highest priority holds any content; the two others hold RulesA or nothing.
FileStates ==
    {fs \in [Locations -> FileContents \cup {NoFile}] :
        \A i \in 2..Len(CODEOWNERS_LOCATIONS) :
            fs[CODEOWNERS_LOCATIONS[i]] \in {NoFile, Some(RulesA)}}

PathsOf(commit) ==
    {commit.file_changes[i].path : i \in 1..Len(commit.file_changes)}

\* A resolver that watches the repository-root location only.
codeowners_changed_root_only(commit) ==
    \E i \in 1..Len(commit.file_changes) :
        commit.file_changes[i].path = "CODEOWNERS"

\* owner.rs:103
codeowners_changed(commit) ==
    \E i \in 1..Len(commit.file_changes) :
        commit.file_changes[i].path \in Range(CODEOWNERS_LOCATIONS)

\* The repository: an ownership file differs between a commit and its parent
\* only if the commit lists its path, and a listed path exists on one side.
Consistent(before, after, touched) ==
    \A l \in Locations :
        /\ l \notin touched => before[l] = after[l]
        /\ l \in touched => ~(before[l] = NoFile /\ after[l] = NoFile)

\* c with ownership files fs can be the next commit commit_iter yields.
Feeds(c, fs) ==
    IF order = "asc"
    THEN Consistent(files, fs, PathsOf(c))
    ELSE IF IsSome(cur) THEN Consistent(fs, files, PathsOf(Unwrap(cur)))
                        ELSE fs = files

\* A resolver without a cache: it reads at every commit.
NeedsFetch_every_commit(cache, commit) == TRUE

\* owner.rs:122
NeedsFetch(cache, commit) == cache = None \/ codeowners_changed(commit)

-----------------------------------------------------------------------------
(* Reading a file at a commit: what `git show commit:path` can give. *)

PathMissingMsg == "fatal: path 'CODEOWNERS' does not exist in 'c'"
BadObjectMsg == "fatal: invalid object name 'c'"

\* str::starts_with over the messages of git.
starts_with(s, prefix) ==
    <<s, prefix>> \in {<<PathMissingMsg, "fatal: ">>,
                       <<PathMissingMsg, "fatal: path">>,
                       <<BadObjectMsg, "fatal: ">>}

\* The Output of the child process; spawned = FALSE when output() fails.
GitOutput(spawned, success, utf8, stdout, stderr) ==
    [spawned |-> spawned, success |-> success, utf8 |-> utf8,
     stdout |-> stdout, stderr |-> stderr]

SpawnFailed == GitOutput(FALSE, FALSE, TRUE, EmptyRules, "")
BadObject == GitOutput(TRUE, FALSE, TRUE, EmptyRules, BadObjectMsg)
PathMissing == GitOutput(TRUE, FALSE, TRUE, EmptyRules, PathMissingMsg)
NotUtf8 == GitOutput(TRUE, TRUE, FALSE, EmptyRules, "")
Shown(content) == GitOutput(TRUE, TRUE, TRUE, content, "")

\* What running git show for location l can give at a commit with the
\* ownership files fs: the process may not start, the object may not
\* resolve, and the bytes of a file that exists may not be UTF-8.
GitShow(fs, l) ==
    {SpawnFailed, BadObject}
        \cup (IF IsSome(fs[l]) THEN {Shown(Unwrap(fs[l])), NotUtf8}
                              ELSE {PathMissing})

IoErr == [kind |-> "err", value |-> None]
IoOk(v) == [kind |-> "ok", value |-> v]

\* A read that takes every failure of git show for a missing path.
read_file_at_commit_failure_is_none(output) ==
    IF ~output.spawned THEN IoErr
    ELSE IF output.success
         THEN IF output.utf8 THEN IoOk(Some(output.stdout)) ELSE IoErr
         ELSE IoOk(None)

\* commit.rs:187
read_file_at_commit(output) ==
    IF ~output.spawned THEN IoErr
    ELSE IF output.success
         THEN IF output.utf8 THEN IoOk(Some(output.stdout)) ELSE IoErr
         ELSE IF starts_with(output.stderr, "fatal: path") THEN IoOk(None)
              ELSE IoErr

\* The runs of the loop of get_codeowners_at_commit from location i on: the
\* outputs of the reads it makes, which end at the first error or content.
RECURSIVE ProbeRunsFrom(_, _)
ProbeRunsFrom(fs, i) ==
    IF i > Len(CODEOWNERS_LOCATIONS) THEN {<<>>}
    ELSE UNION {LET r == read_file_at_commit(output)
                IN IF r.kind = "err" \/ IsSome(r.value)
                   THEN {<<output>>}
                   ELSE {<<output>> \o rest : rest \in ProbeRunsFrom(fs, i + 1)}
                : output \in GitShow(fs, CODEOWNERS_LOCATIONS[i])}

ProbeRuns(fs) == ProbeRunsFrom(fs, 1)

\* get_codeowners_at_commit over the outputs of its reads: `?` returns the
\* first error, the first content wins, and no content at all is None.
RECURSIVE try_get_codeowners_at_commit(_, _)
try_get_codeowners_at_commit(run, i) ==
    IF i > Len(run) THEN IoOk(None)
    ELSE LET r == read_file_at_commit(run[i])
         IN IF r.kind = "err" \/ IsSome(r.value) THEN r
            ELSE try_get_codeowners_at_commit(run, i + 1)

\* get_owners_at_commit over the outputs of its reads.
try_get_owners_at_commit(run) ==
    LET codeowners_str == try_get_codeowners_at_commit(run, 1)
    IN IF codeowners_str.kind = "err" THEN IoErr
       ELSE IoOk(IF IsSome(codeowners_str.value)
                 THEN Unwrap(codeowners_str.value) ELSE EmptyRules)

ResolverIdle ==
    /\ order = "idle" /\ npulled = 0 /\ cur = None /\ files = <<>>
    /\ cached_owners = None /\ prev_cached = None /\ out = [kind |-> "init"]
    /\ fetchLog = <<>> /\ touchLog = <<>> /\ halted = TRUE /\ probes = <<>>

RunIdle ==
    /\ adjusted = FALSE /\ memberships = None /\ rules = EmptyRules
    /\ ncommits = 0 /\ last = None

OwnerIdle ==
    /\ owners = <<>> /\ team_contributors = <<>> /\ outside_contributors = <<>>
    /\ prev_owners = <<>> /\ seen_rows = <<>> /\ authored = {}
    /\ owner_report = None

ContributorIdle ==
    /\ contributors = <<>> /\ prev_contributors = <<>> /\ seen_keys = {}
    /\ contributor_report = None

MemberIdle == roster = <<>> /\ query = None /\ answer = FALSE

PairedIdle == stripped = <<>> /\ flipped = <<>>

ParserIdle == blocks = <<>> /\ pos = 0 /\ results = <<>>

RankIdle ==
    /\ rank_team = None /\ rank_outside = None /\ rank_info = <<>>
    /\ rank_step = 0

TsvIdle ==
    /\ tsv_roster = <<>> /\ tsv_file = None /\ tsv_read = None
    /\ tsv_input = None

FindIdle ==
    /\ repo = <<>> /\ date = 0 /\ first_found = None /\ last_found = None

OtherIdle == PairedIdle /\ ParserIdle /\ RankIdle /\ TsvIdle /\ FindIdle

\* git_log_commits_with_codeowners: cached_owners: None
ResolverInit ==
    /\ order \in {"asc", "desc"}
    /\ npulled = 0
    /\ cur = None
    /\ files \in FileStates
    /\ cached_owners = None
    /\ prev_cached = None
    /\ out = [kind |-> "init"]
    /\ fetchLog = <<>>
    /\ touchLog = <<>>
    /\ halted = FALSE
    /\ probes = <<>>
    /\ adjusted = FALSE /\ rules = EmptyRules /\ ncommits = 0 /\ last = None
    /\ memberships = Some(AuthorMembershipNew(RunRoster))
    /\ OwnerIdle /\ ContributorIdle /\ MemberIdle /\ OtherIdle

Pulled(c, fs, fetch) ==
    /\ npulled' = npulled + 1
    /\ cur' = Some(c)
    /\ files' = fs
    /\ prev_cached' = cached_owners
    /\ fetchLog' = Append(fetchLog, fetch)
    /\ touchLog' = Append(touchLog, codeowners_changed(c))

\* next(): a commit is pulled, the ownership file is read if needed, and the
\* enriched commit is returned.
NextOk ==
    /\ ~halted /\ npulled < MaxHistory
    /\ \E c \in ResolverCommits(npulled + 1),
          fs \in FileStates :
        /\ Feeds(c, fs)
        /\ LET fetch == NeedsFetch(cached_owners, c)
           IN \E run \in (IF fetch THEN ProbeRuns(fs) ELSE {<<>>}) :
                LET read == IF fetch THEN try_get_owners_at_commit(run)
                                     ELSE IoOk(Unwrap(cached_owners))
                IN /\ read.kind = "ok"
                   /\ Pulled(c, fs, fetch)
                   /\ probes' = run
                   /\ cached_owners' = Some(read.value)
                   /\ out' = [kind |-> "ok",
                              commit |-> EnrichCommit(c, read.value,
                                                      memberships)]
    /\ UNCHANGED <<order, halted, runVars, ownerVars, contributorVars, memberVars,
                   otherVars>>

\* next(): a read of the ownership file fails; the error is returned, the
\* cache keeps its value and the consumer returns on the error.
NextReadErr ==
    /\ ~halted /\ npulled < MaxHistory
    /\ \E c \in ResolverCommits(npulled + 1),
          fs \in FileStates :
        /\ Feeds(c, fs)
        /\ NeedsFetch(cached_owners, c)
        /\ \E run \in ProbeRuns(fs) :
              /\ try_get_owners_at_commit(run).kind = "err"
              /\ probes' = run
        /\ Pulled(c, fs, TRUE)
    /\ out' = [kind |-> "err"]
    /\ halted' = TRUE
    /\ UNCHANGED <<order, cached_owners, runVars, ownerVars, contributorVars,
                   memberVars, otherVars>>

\* next(): commit_iter yields an error, which is passed on.
NextUpstreamErr ==
    /\ ~halted /\ npulled < MaxHistory
    /\ out' = [kind |-> "err"]
    /\ halted' = TRUE
    /\ probes' = <<>>
    /\ UNCHANGED <<order, npulled, cur, files, cached_owners, prev_cached,
                   fetchLog, touchLog, runVars, ownerVars, contributorVars,
                   memberVars, otherVars>>

\* next(): commit_iter is exhausted.
NextEnd ==
    /\ ~halted
    /\ out' = [kind |-> "end"]
    /\ halted' = TRUE
    /\ probes' = <<>>
    /\ UNCHANGED <<order, npulled, cur, files, cached_owners, prev_cached,
                   fetchLog, touchLog, runVars, ownerVars, contributorVars,
                   memberVars, otherVars>>

ResolverNext == NextOk \/ NextReadErr \/ NextUpstreamErr \/ NextEnd

Spec == ResolverInit /\ [][ResolverNext]_vars

-----------------------------------------------------------------------------
(* The uncached resolver of co.rs: the ownership file is read at every     *)
(* commit, and a path has owners only if a file exists and a rule matches. *)
UncachedOwners(fs, path) ==
    LET codeowners_contents == get_codeowners_at_commit(fs)
    IN IF IsSome(codeowners_contents)
       THEN Of(Unwrap(codeowners_contents), path)
       ELSE None

\* Every owner list of the commit returned last is the one the ownership
\* file of that very commit gives to the path.
ResolvedAtOwnCommit ==
    out.kind = "ok" =>
        \A i \in 1..Len(out.commit.file_changes) :
            /\ out.commit.file_changes[i].path = Unwrap(cur).file_changes[i].path
            /\ out.commit.file_changes[i].codeowners =
                   UncachedOwners(files, Unwrap(cur).file_changes[i].path)

C2_DescResolvedAtOwnCommit == order = "desc" => ResolvedAtOwnCommit

\* C4: next() reads the ownership file at a commit iff the commit is the
\* first one processed or lists an ownership-file path; otherwise the cache
\* is left as it was.  So when only the middle commit of three lists an
\* ownership-file path, the file is re-read once, at the middle commit, and
\* the third commit is served from the cache.
C4_ReadsIffFirstOrTouched ==
    /\ Len(fetchLog) = Len(touchLog)
    /\ \A i \in 1..Len(fetchLog) : fetchLog[i] <=> (i = 1 \/ touchLog[i])
    /\ (fetchLog # <<>> /\ ~fetchLog[Len(fetchLog)]) => cached_owners = prev_cached
    /\ touchLog = <<FALSE, TRUE, FALSE>> =>
          /\ fetchLog = <<TRUE, TRUE, FALSE>>
          /\ cached_owners = prev_cached

\* C4 witness: three commits, only the middle one lists an ownership path,
\* and the third has been resolved.
C4_Witness ==
    /\ touchLog = <<FALSE, TRUE, FALSE>>
    /\ fetchLog = <<TRUE, TRUE, FALSE>>
    /\ out.kind = "ok" /\ out.commit.id = 3
    /\ cached_owners = prev_cached


\* No ownership file exists at any of the well-known locations.
NoOwnershipFile(fs) == \A l \in Locations : fs[l] = NoFile

NoChangeHasOwners(commit) ==
    \A i \in 1..Len(commit.file_changes) :
        commit.file_changes[i].codeowners = None

\* C20: when no ownership file exists at any location at the commit being
\* resolved, the commit the resolver returns has no owners on any of its
\* changes; a later commit served from the cache of the empty rule set has
\* no owners on any change either.
C20_NoFileGivesEmptyRules ==
    (out.kind = "ok" /\ fetchLog # <<>>) =>
        /\ NoOwnershipFile(files) => NoChangeHasOwners(out.commit)
        /\ (~fetchLog[Len(fetchLog)] /\ prev_cached = Some(EmptyRules)) =>
              /\ cached_owners = Some(EmptyRules)
              /\ NoChangeHasOwners(out.commit)

\* git show failed for a reason other than the path not existing.
ReadFails(output) ==
    \/ ~output.spawned
    \/ output.success /\ ~output.utf8
    \/ ~output.success /\ output.stderr # PathMissingMsg

PathDoesNotExist(output) ==
    output.spawned /\ ~output.success /\ output.stderr = PathMissingMsg

-----------------------------------------------------------------------------
(* The commits of an analysis run. *)

AnalysisPaths == <<"a.go", "b.go">>
AnalysisStats == {<<0, 1>>, <<1, 0>>, <<2, 1>>}
AnalysisRules == {RulesA, RulesB, RulesC}
AnalysisCommits(id) == CommitsOver(Authors, AnalysisPaths, AnalysisStats, id)

\* The largest commit_total_insertions a commit of the run can reach, and a
\* common denominator of all commit weights.
MaxInsertions ==
    CHOOSE m \in {s[1] : s \in AnalysisStats} : \A s \in AnalysisStats : s[1] <= m
MaxTotalInsertions == MaxInsertions * Len(AnalysisPaths) * Cardinality(OwnerNames)
WeightScale == LcmUpTo(MaxTotalInsertions)

\* The rows of a commit whose owner list holds owner o.
RowsOf(commit, o) ==
    {i \in 1..Len(commit.file_changes) :
        /\ IsSome(commit.file_changes[i].codeowners)
        /\ o \in Range(Unwrap(commit.file_changes[i].codeowners))}

RECURSIVE SumOver(_, _)
SumOver(S, f) ==
    IF S = {} THEN 0
    ELSE LET x == CHOOSE y \in S : TRUE IN f[x] + SumOver(S \ {x}, f)

Insertions(commit) ==
    [i \in 1..Len(commit.file_changes) |-> commit.file_changes[i].insertions]
Deletions(commit) ==
    [i \in 1..Len(commit.file_changes) |-> commit.file_changes[i].deletions]

\* Loops that credit the first owner of a change only.
RECURSIVE OwnerPairs_first_owner_only(_)
OwnerPairs_first_owner_only(changes) ==
    IF changes = <<>> THEN <<>>
    ELSE LET change == Head(changes)
         IN (IF IsSome(change.codeowners) /\ Unwrap(change.codeowners) # <<>>
             THEN <<[change |-> change, owner |-> Unwrap(change.codeowners)[1]]>>
             ELSE <<>>) \o OwnerPairs_first_owner_only(Tail(changes))

\* The (change, owner) pairs in the order the two loops of analyze_by_owner
\* visit them: changes without an owner list are skipped.
RECURSIVE OwnerPairs(_)
OwnerPairs(changes) ==
    IF changes = <<>> THEN <<>>
    ELSE LET change == Head(changes)
         IN (IF IsSome(change.codeowners)
             THEN [i \in 1..Len(Unwrap(change.codeowners)) |->
                      [change |-> change, owner |-> Unwrap(change.codeowners)[i]]]
             ELSE <<>>) \o OwnerPairs(Tail(changes))

-----------------------------------------------------------------------------
(* analyze_by_owner (analyze.rs:28). *)

NewOwnerInfo(owner) ==
    [owner |-> owner,
     total_insertions_by_team |-> 0,
     total_deletions_by_team |-> 0,
     total_commits_by_team |-> 0,
     total_insertions_by_others |-> 0,
     total_deletions_by_others |-> 0,
     total_commits_by_others |-> 0,
     top_outside_contributors_by_changes |-> <<>>,
     top_outside_contributors_by_commits |-> <<>>,
     top_team_contributors_by_changes |-> <<>>,
     top_team_contributors_by_commits |-> <<>>,
     adjusted_changes_by_team |-> 0,
     adjusted_commits_by_team |-> 0,
     adjusted_changes_by_others |-> 0,
     adjusted_commits_by_others |-> 0]

\* Raw credit that is split between the owners of the change.
RawInsertions_split(change) ==
    change.insertions \div Len(Unwrap(change.codeowners))

\* analyze.rs:79, 94: change.insertions as usize
RawInsertions(change) == change.insertions

\* First pass (analyze.rs:44): per owner insertions and the commit total.
RECURSIVE OwnerFirstPass(_, _)
OwnerFirstPass(pairs, acc) ==
    IF pairs = <<>> THEN acc
    ELSE LET p == Head(pairs)
         IN OwnerFirstPass(Tail(pairs),
              [commit_changes_by_owner |->
                   Put(acc.commit_changes_by_owner, p.owner,
                       Get(acc.commit_changes_by_owner, p.owner, 0)
                           + p.change.insertions),
               commit_total_insertions |->
                   acc.commit_total_insertions + p.change.insertions])

\* analyze.rs:84: the weight of an owner within a commit, times WeightScale.
OwnerCommitWeight(fp, owner) ==
    IF fp.commit_total_insertions > 0
    THEN (Get(fp.commit_changes_by_owner, owner, 0) * WeightScale)
             \div fp.commit_total_insertions
    ELSE 0

\* Contributor statistics that count the insertions of a change only.
update_contributor_stats_insertions_only(pool, owner, commit, change) ==
    LET owner_contributors == Get(pool, owner, EmptyMap)
        contributor_key == <<commit.author_name, commit.author_email>>
        old == Get(owner_contributors, contributor_key, <<0, 0>>)
    IN Put(pool, owner,
           Put(owner_contributors, contributor_key,
               <<old[1] + change.insertions, old[2] + 1>>))

\* analyze.rs:130
update_contributor_stats(pool, owner, commit, change) ==
    LET owner_contributors == Get(pool, owner, EmptyMap)
        contributor_key == <<commit.author_name, commit.author_email>>
        old == Get(owner_contributors, contributor_key, <<0, 0>>)
    IN Put(pool, owner,
           Put(owner_contributors, contributor_key,
               <<old[1] + change.insertions + change.deletions, old[2] + 1>>))

\* The body of the second loop (analyze.rs:59-113) for one (change, owner).
OwnerApply(st, p, commit, fp, adj) ==
    LET change == p.change
        owner_info == Get(st.owners, p.owner, NewOwnerInfo(p.owner))
        is_team_member == IF IsSome(change.author_is_codeowner)
                          THEN Unwrap(change.author_is_codeowner) ELSE FALSE
        commit_weight == OwnerCommitWeight(fp, p.owner)
    IN IF is_team_member
       THEN [owners |-> Put(st.owners, p.owner,
                [owner_info EXCEPT
                    !.total_insertions_by_team = @ + RawInsertions(change),
                    !.total_deletions_by_team = @ + change.deletions,
                    !.total_commits_by_team = @ + 1,
                    !.adjusted_changes_by_team =
                        IF adj THEN @ + change.insertions ELSE @,
                    !.adjusted_commits_by_team =
                        IF adj THEN @ + commit_weight ELSE @]),
             team |-> update_contributor_stats(st.team, p.owner, commit, change),
             outside |-> st.outside]
       ELSE [owners |-> Put(st.owners, p.owner,
                [owner_info EXCEPT
                    !.total_insertions_by_others = @ + RawInsertions(change),
                    !.total_deletions_by_others = @ + change.deletions,
                    !.total_commits_by_others = @ + 1,
                    !.adjusted_changes_by_others =
                        IF adj THEN @ + change.insertions ELSE @,
                    !.adjusted_commits_by_others =
                        IF adj THEN @ + commit_weight ELSE @]),
             team |-> st.team,
             outside |-> update_contributor_stats(st.outside, p.owner, commit, change)]

RECURSIVE OwnerSecondPass(_, _, _, _, _)
OwnerSecondPass(pairs, st, commit, fp, adj) ==
    IF pairs = <<>> THEN st
    ELSE OwnerSecondPass(Tail(pairs), OwnerApply(st, Head(pairs), commit, fp, adj),
                         commit, fp, adj)

\* A first pass whose commit total also counts the changes without an owner
\* list.
OwnerFold_total_over_all_changes(st, commit, adj) ==
    LET pairs == OwnerPairs(commit.file_changes)
        fp == OwnerFirstPass(pairs, [commit_changes_by_owner |-> EmptyMap,
                                     commit_total_insertions |-> 0])
        unowned == SelectSeq(commit.file_changes,
                             LAMBDA ch : ~IsSome(ch.codeowners))
        all == [fp EXCEPT !.commit_total_insertions =
                   @ + SumSeq([i \in 1..Len(unowned) |-> unowned[i].insertions])]
    IN OwnerSecondPass(pairs, st, commit, all, adj)

\* One iteration of the loop over commits (analyze.rs:39-117).
OwnerFold(st, commit, adj) ==
    LET pairs == OwnerPairs(commit.file_changes)
        fp == OwnerFirstPass(pairs, [commit_changes_by_owner |-> EmptyMap,
                                     commit_total_insertions |-> 0])
    IN OwnerSecondPass(pairs, st, commit, fp, adj)

RunInit ==
    /\ adjusted \in BOOLEAN
    /\ memberships \in MembershipOptions
    /\ rules \in AnalysisRules
    /\ ncommits = 0
    /\ last = None

\* The commit's author with every owner group that owns one of its changes.
AuthoredBy(commit) ==
    {<<<<commit.author_name, commit.author_email>>, o>> :
        o \in {x \in OwnerNames : RowsOf(commit, x) # {}}}

\* The commit's author, if the commit has a change.
KeyWithChanges(commit) ==
    IF commit.file_changes # <<>>
    THEN {<<commit.author_name, commit.author_email>>} ELSE {}

OwnerInit ==
    /\ RunInit
    /\ owners = EmptyMap
    /\ team_contributors = EmptyMap
    /\ outside_contributors = EmptyMap
    /\ prev_owners = EmptyMap
    /\ seen_rows = [o \in OwnerNames |-> 0]
    /\ authored = {}
    /\ owner_report = None
    /\ ResolverIdle /\ ContributorIdle /\ MemberIdle /\ OtherIdle

\* The resolver yields the next enriched commit and analyze_by_owner folds it.
OwnerCommit ==
    /\ ncommits < MaxCommits
    /\ owner_report = None
    /\ \E c \in AnalysisCommits(ncommits + 1) :
         LET e == EnrichCommit(c, rules, memberships)
             st == OwnerFold([owners |-> owners, team |-> team_contributors,
                              outside |-> outside_contributors], e, adjusted)
         IN /\ last' = Some(e)
            /\ prev_owners' = owners
            /\ seen_rows' = [o \in OwnerNames |->
                                seen_rows[o] + Cardinality(RowsOf(e, o))]
            /\ owners' = st.owners
            /\ team_contributors' = st.team
            /\ outside_contributors' = st.outside
            /\ authored' = authored \cup AuthoredBy(e)
    /\ ncommits' = ncommits + 1
    /\ UNCHANGED <<adjusted, memberships, rules, owner_report, resolverVars,
                   contributorVars, memberVars, otherVars>>

-----------------------------------------------------------------------------
(* What the commit folded last added to the totals of an owner. *)
Info(m, o) == Get(m, o, NewOwnerInfo(o))

DeltaTeamInsertions(o) ==
    Info(owners, o).total_insertions_by_team
        - Info(prev_owners, o).total_insertions_by_team
DeltaTeamDeletions(o) ==
    Info(owners, o).total_deletions_by_team
        - Info(prev_owners, o).total_deletions_by_team
DeltaTeamCommits(o) ==
    Info(owners, o).total_commits_by_team - Info(prev_owners, o).total_commits_by_team
DeltaOthersInsertions(o) ==
    Info(owners, o).total_insertions_by_others
        - Info(prev_owners, o).total_insertions_by_others
DeltaOthersDeletions(o) ==
    Info(owners, o).total_deletions_by_others
        - Info(prev_owners, o).total_deletions_by_others
DeltaOthersCommits(o) ==
    Info(owners, o).total_commits_by_others
        - Info(prev_owners, o).total_commits_by_others
DeltaAdjustedCommits(o) ==
    (Info(owners, o).adjusted_commits_by_team
        + Info(owners, o).adjusted_commits_by_others)
    - (Info(prev_owners, o).adjusted_commits_by_team
        + Info(prev_owners, o).adjusted_commits_by_others)

\* The author of commit is on the roster of owner group o.
AuthorIsMember(commit, o) ==
    /\ IsSome(memberships)
    /\ is_codeowner(Unwrap(memberships), commit.author_name, commit.author_email, o)

\* C3: a change is added to the team totals of an owner group only if the
\* commit author is a member of that very group; for the groups of the change
\* the author is not a member of, it is added to the others totals.
C3_TeamOnlyForMembersOfThatOwner ==
    IsSome(last) =>
        LET c == Unwrap(last) IN
        \A o \in OwnerNames :
            LET mine == IF AuthorIsMember(c, o) THEN RowsOf(c, o) ELSE {}
                theirs == IF AuthorIsMember(c, o) THEN {} ELSE RowsOf(c, o)
            IN /\ DeltaTeamInsertions(o) = SumOver(mine, Insertions(c))
               /\ DeltaTeamDeletions(o) = SumOver(mine, Deletions(c))
               /\ DeltaTeamCommits(o) = Cardinality(mine)
               /\ DeltaOthersInsertions(o) = SumOver(theirs, Insertions(c))
               /\ DeltaOthersDeletions(o) = SumOver(theirs, Deletions(c))
               /\ DeltaOthersCommits(o) = Cardinality(theirs)

HasOwnedInsertions(c) ==
    \E i \in 1..Len(c.file_changes) :
        /\ c.file_changes[i].insertions > 0
        /\ IsSome(c.file_changes[i].codeowners)
        /\ Unwrap(c.file_changes[i].codeowners) # <<>>

\* C7: in adjusted mode the weights a commit adds to adjusted_commits, summed
\* over all owner groups (team plus others), are 1 if the commit has a change
\* with nonzero insertions and an owner, and 0 otherwise.
C7_CommitWeightsSumToOne ==
    (adjusted /\ IsSome(last)) =>
        SumOver(OwnerNames, [o \in OwnerNames |-> DeltaAdjustedCommits(o)])
          = IF HasOwnedInsertions(Unwrap(last)) THEN WeightScale ELSE 0

\* C8: in adjusted mode the weight of an owner within a commit is the
\* insertions of the commit's changes owned by that owner over the insertions
\* of all changes of the commit, each change counted once, and 0 when the
\* commit has no insertions.  (The weight is added once per row of the owner.)
C8_WeightOverAllInsertions ==
    (adjusted /\ IsSome(last)) =>
        LET c == Unwrap(last)
            total == SumOver(1..Len(c.file_changes), Insertions(c))
        IN \A o \in OwnerNames :
              DeltaAdjustedCommits(o) =
                  Cardinality(RowsOf(c, o)) *
                    (IF total > 0
                     THEN (SumOver(RowsOf(c, o), Insertions(c)) * WeightScale)
                              \div total
                     ELSE 0)

-----------------------------------------------------------------------------
(* analyze_by_contributor (analyze.rs:196). *)

Unowned == "<unowned>"
Buckets == OwnerNames \cup {Unowned}

\* A bucketing by the last owner of the change.
ContributorBucket_last_owner(change) ==
    IF IsSome(change.codeowners) /\ Unwrap(change.codeowners) # <<>>
    THEN Unwrap(change.codeowners)[Len(Unwrap(change.codeowners))]
    ELSE Unowned

\* analyze.rs:211, 221: the first owner of the change, or "<unowned>".
ContributorBucket(change) ==
    IF IsSome(change.codeowners) /\ Unwrap(change.codeowners) # <<>>
    THEN Unwrap(change.codeowners)[1]
    ELSE Unowned

\* First pass (analyze.rs:209): per bucket insertions and the commit total.
RECURSIVE ContributorFirstPass(_, _)
ContributorFirstPass(changes, acc) ==
    IF changes = <<>> THEN acc
    ELSE LET change == Head(changes)
             owner == ContributorBucket(change)
         IN ContributorFirstPass(Tail(changes),
              [commit_changes_by_owner |->
                   Put(acc.commit_changes_by_owner, owner,
                       Get(acc.commit_changes_by_owner, owner, 0) + change.insertions),
               commit_total_insertions |->
                   acc.commit_total_insertions + change.insertions])

\* analyze.rs:235, 255: the weight of a bucket within a commit, times WeightScale.
ContributorCommitWeight(fp, owner) ==
    IF fp.commit_total_insertions > 0
    THEN (Get(fp.commit_changes_by_owner, owner, 0) * WeightScale)
             \div fp.commit_total_insertions
    ELSE 0

\* The body of the second loop (analyze.rs:220-266) for one change.
ContributorApply(cs, change, contributor_key, fp, adj) ==
    LET owner == ContributorBucket(change)
        contributions == Get(cs, contributor_key, <<>>)
        found == {i \in 1..Len(contributions) : contributions[i].owner = owner}
        commit_weight == ContributorCommitWeight(fp, owner)
    IN IF found # {}
       THEN LET k == CHOOSE i \in found : \A j \in found : i <= j
            IN Put(cs, contributor_key,
                   [contributions EXCEPT
                       ![k].total_insertions = @ + change.insertions,
                       ![k].total_deletions = @ + change.deletions,
                       ![k].total_commits = @ + 1,
                       ![k].adjusted_changes =
                           IF adj THEN @ + change.insertions ELSE @,
                       ![k].adjusted_commits =
                           IF adj THEN @ + commit_weight ELSE @])
       ELSE Put(cs, contributor_key,
                Append(contributions,
                   [owner |-> owner,
                    total_insertions |-> change.insertions,
                    total_deletions |-> change.deletions,
                    total_commits |-> 1,
                    adjusted_changes |-> IF adj THEN change.insertions ELSE 0,
                    adjusted_commits |-> IF adj THEN commit_weight ELSE 0]))

RECURSIVE ContributorSecondPass(_, _, _, _, _)
ContributorSecondPass(changes, cs, contributor_key, fp, adj) ==
    IF changes = <<>> THEN cs
    ELSE ContributorSecondPass(Tail(changes),
             ContributorApply(cs, Head(changes), contributor_key, fp, adj),
             contributor_key, fp, adj)

\* One iteration of the loop over commits (analyze.rs:202-267).
ContributorFold(cs, commit, adj) ==
    LET contributor_key == <<commit.author_name, commit.author_email>>
        fp == ContributorFirstPass(commit.file_changes,
                  [commit_changes_by_owner |-> EmptyMap,
                   commit_total_insertions |-> 0])
    IN ContributorSecondPass(commit.file_changes, cs, contributor_key, fp, adj)

ContributorInit ==
    /\ RunInit
    /\ contributors = EmptyMap
    /\ prev_contributors = EmptyMap
    /\ seen_keys = {}
    /\ contributor_report = None
    /\ ResolverIdle /\ OwnerIdle /\ MemberIdle /\ OtherIdle

\* The resolver yields the next enriched commit and analyze_by_contributor
\* folds it.
ContributorCommit ==
    /\ ncommits < MaxCommits
    /\ contributor_report = None
    /\ \E c \in AnalysisCommits(ncommits + 1) :
         LET e == EnrichCommit(c, rules, memberships)
         IN /\ last' = Some(e)
            /\ prev_contributors' = contributors
            /\ contributors' = ContributorFold(contributors, e, adjusted)
            /\ seen_keys' = seen_keys \cup KeyWithChanges(e)
    /\ ncommits' = ncommits + 1
    /\ UNCHANGED <<adjusted, memberships, rules, contributor_report,
                   resolverVars, ownerVars, memberVars, otherVars>>

\* The breakdown of contributor key for bucket b, all zero if there is none.
NoContribution(b) ==
    [owner |-> b, total_insertions |-> 0, total_deletions |-> 0,
     total_commits |-> 0, adjusted_changes |-> 0, adjusted_commits |-> 0]

Contribution(cs, key, b) ==
    LET contributions == Get(cs, key, <<>>)
        found == {i \in 1..Len(contributions) : contributions[i].owner = b}
    IN IF found = {} THEN NoContribution(b)
       ELSE contributions[CHOOSE i \in found : TRUE]

\* The rows of a commit that the claim puts in bucket b: the rows whose first
\* owner is b, or the rows without any owner for the unowned bucket.
RowsFirstOwnedBy(commit, b) ==
    {i \in 1..Len(commit.file_changes) :
        LET co == commit.file_changes[i].codeowners
        IN IF b = Unowned
           THEN co = None \/ co = Some(<<>>)
           ELSE IsSome(co) /\ Unwrap(co) # <<>> /\ Head(Unwrap(co)) = b}

AuthorKeys == {<<a.name, a.email>> : a \in Authors}

\* C10: every file change adds its insertions, its deletions and one commit
\* count to exactly one bucket of its author: that of the first owner of its
\* owner list, or the unowned bucket when the list is absent or empty; the
\* buckets of its other owners, and of other authors, get nothing.
C10_FirstOwnerBucketOnly ==
    IsSome(last) =>
        LET c == Unwrap(last)
            author == <<c.author_name, c.author_email>>
        IN /\ \A b \in Buckets :
                LET rows == RowsFirstOwnedBy(c, b)
                    now == Contribution(contributors, author, b)
                    before == Contribution(prev_contributors, author, b)
                IN /\ now.total_insertions - before.total_insertions
                       = SumOver(rows, Insertions(c))
                   /\ now.total_deletions - before.total_deletions
                       = SumOver(rows, Deletions(c))
                   /\ now.total_commits - before.total_commits = Cardinality(rows)
           /\ \A k \in AuthorKeys \ {author} :
                Get(contributors, k, <<>>) = Get(prev_contributors, k, <<>>)
           /\ \A k \in DOMAIN contributors :
                \A i, j \in 1..Len(contributors[k]) :
                    contributors[k][i].owner = contributors[k][j].owner => i = j

\* C10 witness: the commit folded last has a change with two owners and
\* nonzero insertions; its author has a bucket for the first owner and none
\* for the second.
C10_Witness ==
    /\ IsSome(last)
    /\ \E i \in 1..Len(Unwrap(last).file_changes) :
          LET ch == Unwrap(last).file_changes[i]
              key == <<Unwrap(last).author_name, Unwrap(last).author_email>>
          IN /\ ch.codeowners = Some(<<"@team1", "@team2">>)
             /\ ch.insertions = 2
             /\ Contribution(contributors, key, "@team1").total_insertions >= 2
             /\ Contribution(contributors, key, "@team2").total_commits = 0
             /\ key \in DOMAIN contributors

-----------------------------------------------------------------------------
(* Membership queries: AuthorMembership of owner.rs against author_matches  *)
(* of co.rs.                                                                *)

MemberEmails == {"alice@x.com", "Alice@X.com"}
MemberNames == {"alice", "Alice"}

\* str::to_lowercase on the strings of the model.
to_lowercase(str) ==
    CASE str = "Alice@X.com" -> "alice@x.com"
      [] str = "Alice" -> "alice"
      [] str = "Bob" -> "bob"
      [] OTHER -> str

RosterEntries ==
    { [author_email |-> e, author_name |-> n, codeowner |-> o] :
          e \in {None} \cup {Some(x) : x \in MemberEmails},
          n \in {None} \cup {Some(x) : x \in MemberNames},
          o \in OwnerNames }

Rosters == UNION {[1..n -> RosterEntries] : n \in 0..MaxRoster}

\* co.rs:70
author_matches(membership, author_name, author_email) ==
    \/ /\ IsSome(membership.author_email)
       /\ to_lowercase(Unwrap(membership.author_email)) = to_lowercase(author_email)
    \/ /\ IsSome(membership.author_name)
       /\ to_lowercase(Unwrap(membership.author_name)) = to_lowercase(author_name)

MemberInit ==
    /\ roster \in Rosters
    /\ query = None
    /\ answer = FALSE
    /\ ResolverIdle /\ RunIdle /\ OwnerIdle /\ ContributorIdle /\ OtherIdle

\* AuthorMembership::new(roster).is_codeowner(name, email, codeowner)
MemberQuery ==
    /\ \E n \in MemberNames, e \in MemberEmails, o \in OwnerNames :
          /\ query' = Some([name |-> n, email |-> e, codeowner |-> o])
          /\ answer' = is_codeowner(AuthorMembershipNew(roster), n, e, o)
    /\ UNCHANGED <<roster, resolverVars, runVars, ownerVars, contributorVars,
                   otherVars>>

MemberNext == MemberQuery

SpecMember == MemberInit /\ [][MemberNext]_vars

\* C5: an author is treated as a member of an owner group iff some roster
\* entry of that group has an email equal to the author's email ignoring
\* letter case, or a name equal to the author's name ignoring letter case;
\* an absent roster field never matches.
C5_MemberIffCaseInsensitiveMatch ==
    IsSome(query) =>
        LET q == Unwrap(query)
        IN answer <=>
             \E i \in 1..Len(roster) :
                /\ roster[i].codeowner = q.codeowner
                /\ author_matches(roster[i], q.name, q.email)

-----------------------------------------------------------------------------
(* Both reports over one commit stream: main.rs hands the commits of
   git_log_commits_with_codeowners to analyze_by_owner and to
   analyze_by_contributor; here the two folds consume the same commits. *)

\* The commit without its changes that no ownership rule matched.
WithoutUnmatched(commit) ==
    [commit EXCEPT !.file_changes =
        SelectSeq(commit.file_changes, LAMBDA ch : IsSome(ch.codeowners))]

OwnerState == [owners |-> owners, team |-> team_contributors,
               outside |-> outside_contributors]

PairedInit ==
    /\ adjusted \in BOOLEAN
    /\ memberships = Some(AuthorMembershipNew(RunRoster))
    /\ rules \in AnalysisRules
    /\ ncommits = 0
    /\ last = None
    /\ owners = EmptyMap
    /\ team_contributors = EmptyMap
    /\ outside_contributors = EmptyMap
    /\ prev_owners = EmptyMap
    /\ seen_rows = [o \in OwnerNames |-> 0]
    /\ contributors = EmptyMap
    /\ prev_contributors = EmptyMap
    /\ stripped = [owners |-> EmptyMap, team |-> EmptyMap, outside |-> EmptyMap]
    /\ seen_keys = {}
    /\ authored = {}
    /\ flipped = [by_owner |-> [owners |-> EmptyMap, team |-> EmptyMap,
                                outside |-> EmptyMap],
                  by_contributor |-> EmptyMap]
    /\ owner_report = None
    /\ contributor_report = None
    /\ ResolverIdle /\ MemberIdle /\ ParserIdle /\ RankIdle /\ TsvIdle
    /\ FindIdle

\* The resolver yields the next enriched commit; analyze_by_owner and
\* analyze_by_contributor each fold it.
PairedCommit ==
    /\ ncommits < MaxCommits
    /\ owner_report = None /\ contributor_report = None
    /\ \E c \in AnalysisCommits(ncommits + 1) :
         LET e == EnrichCommit(c, rules, memberships)
             st == OwnerFold(OwnerState, e, adjusted)
         IN /\ last' = Some(e)
            /\ prev_owners' = owners
            /\ seen_rows' = [o \in OwnerNames |->
                                seen_rows[o] + Cardinality(RowsOf(e, o))]
            /\ owners' = st.owners
            /\ team_contributors' = st.team
            /\ outside_contributors' = st.outside
            /\ prev_contributors' = contributors
            /\ contributors' = ContributorFold(contributors, e, adjusted)
            /\ stripped' = OwnerFold(stripped, WithoutUnmatched(e), adjusted)
            /\ seen_keys' = seen_keys \cup KeyWithChanges(e)
            /\ authored' = authored \cup AuthoredBy(e)
            /\ flipped' =
                   [by_owner |-> OwnerFold(flipped.by_owner, e, ~adjusted),
                    by_contributor |->
                        ContributorFold(flipped.by_contributor, e, ~adjusted)]
    /\ ncommits' = ncommits + 1
    /\ UNCHANGED <<adjusted, memberships, rules, owner_report,
                   contributor_report, resolverVars, memberVars, parserVars,
                   rankVars, tsvVars,
                   findVars>>

\* The rows of a commit whose path no ownership rule matched.
UnmatchedRows(commit) ==
    {i \in 1..Len(commit.file_changes) :
        commit.file_changes[i].codeowners = None}

C22_ContributorWeightEqualsOwnerWeight ==
    (IsSome(last) /\ adjusted) =>
        LET c == Unwrap(last)
            author == <<c.author_name, c.author_email>>
        IN \A o \in OwnerNames :
              (RowsOf(c, o) = RowsFirstOwnedBy(c, o)
                  /\ Cardinality(RowsOf(c, o)) = 1) =>
                  Contribution(contributors, author, o).adjusted_commits
                      - Contribution(prev_contributors, author, o).adjusted_commits
                    = DeltaAdjustedCommits(o)

-----------------------------------------------------------------------------
(* CommitIterator over the lines of `git log --format=COMMIT%n%H%n%at%n%an%n%ae
   --numstat` (commit.rs:46). A line is a string; the operations on strings
   are tables over the lines of the model. *)

Sentinel == "COMMIT"
NumericChange == "1\t2\ta.go"
BinaryChange == "-\t-\timg.png"
TwoFieldChange == "1\ta.go"
Junk == "oops"
Blank == ""
Spaces == "  "

\* str::trim_end (commit.rs:29) and str::trim (commit.rs:100).
trim_end(line) == IF line = Spaces THEN "" ELSE line
trim(line) == IF line = Spaces THEN "" ELSE line

\* line.split('\t').collect() (commit.rs:114)
split(line) ==
    CASE line = NumericChange -> <<"1", "2", "a.go">>
      [] line = BinaryChange -> <<"-", "-", "img.png">>
      [] line = TwoFieldChange -> <<"1", "a.go">>
      [] OTHER -> <<line>>

\* str::parse::<i64>() (commit.rs:77) and str::parse::<i32>() (commit.rs:117)
Digits == [s \in {"0", "1", "2", "7", "17"} |->
              CASE s = "0" -> 0 [] s = "1" -> 1 [] s = "2" -> 2
                [] s = "7" -> 7 [] s = "17" -> 17]
parse(s) == IF s \in DOMAIN Digits THEN Some(Digits[s]) ELSE None
unwrap_or(opt, default) == IF IsSome(opt) THEN Unwrap(opt) ELSE default

\* LineReader::next (commit.rs:23): the line after `consumed` lines, if any.
LineAt(input, consumed) ==
    IF consumed < Len(input) THEN Some(trim_end(input[consumed + 1])) ELSE None

CommitInfoDefault ==
    [id |-> "", timestamp |-> 0, author_name |-> "", author_email |-> "",
     file_changes |-> <<>>]

Err(msg, consumed) == [kind |-> "err", msg |-> msg, pos |-> consumed]
Ok(info, consumed) == [kind |-> "ok", commit |-> info, pos |-> consumed]

\* commit.rs:70-96: for _ in 0..4 { ... }
RECURSIVE ReadMetadata(_, _, _, _)
ReadMetadata(input, info, consumed, n) ==
    IF n = 0 THEN Ok(info, consumed)
    ELSE LET next == LineAt(input, consumed)
         IN IF ~IsSome(next) THEN Err("Incomplete commit info", consumed)
            ELSE LET line == Unwrap(next)
                 IN IF info.id = ""
                    THEN ReadMetadata(input, [info EXCEPT !.id = line],
                                      consumed + 1, n - 1)
                    ELSE IF info.timestamp = 0
                    THEN IF IsSome(parse(line))
                         THEN ReadMetadata(input,
                                  [info EXCEPT !.timestamp = Unwrap(parse(line))],
                                  consumed + 1, n - 1)
                         ELSE Err("invalid digit found in string", consumed + 1)
                    ELSE IF info.author_name = ""
                    THEN ReadMetadata(input, [info EXCEPT !.author_name = line],
                                      consumed + 1, n - 1)
                    ELSE ReadMetadata(input, [info EXCEPT !.author_email = line],
                                      consumed + 1, n - 1)

\* A separator step that accepts any line.
ReadSeparator_any_line(input, info, consumed) ==
    LET next == LineAt(input, consumed)
    IN IF ~IsSome(next) THEN Ok(info, consumed) ELSE Ok(info, consumed + 1)

\* commit.rs:98-107: the line after the metadata.
ReadSeparator(input, info, consumed) ==
    LET next == LineAt(input, consumed)
    IN IF ~IsSome(next) THEN Ok(info, consumed)
       ELSE IF trim(Unwrap(next)) = "" THEN Ok(info, consumed + 1)
       ELSE Err("Expected empty line", consumed + 1)

\* A loop over the change lines that rejects a field that does not parse
\* instead of taking 0.
RECURSIVE ReadChanges_strict_numbers(_, _, _)
ReadChanges_strict_numbers(input, info, consumed) ==
    LET peek == LineAt(input, consumed)
    IN IF ~IsSome(peek) \/ peek = Some(Sentinel) THEN Ok(info, consumed)
       ELSE LET parts == split(Unwrap(peek))
            IN IF Len(parts) = 3 /\ IsSome(parse(parts[1]))
                  /\ IsSome(parse(parts[2]))
               THEN ReadChanges_strict_numbers(input,
                       [info EXCEPT !.file_changes = Append(@,
                           [insertions |-> Unwrap(parse(parts[1])),
                            deletions |-> Unwrap(parse(parts[2])),
                            path |-> parts[3]])],
                       consumed + 1)
               ELSE Err("Invalid file change format", consumed)

\* commit.rs:110-128: while let Some(Ok(line)) = self.lines.peek() { ... }
RECURSIVE ReadChanges(_, _, _)
ReadChanges(input, info, consumed) ==
    LET peek == LineAt(input, consumed)
    IN IF ~IsSome(peek) \/ peek = Some(Sentinel) THEN Ok(info, consumed)
       ELSE LET parts == split(Unwrap(peek))
            IN IF Len(parts) = 3
               THEN ReadChanges(input,
                       [info EXCEPT !.file_changes = Append(@,
                           [insertions |-> unwrap_or(parse(parts[1]), 0),
                            deletions |-> unwrap_or(parse(parts[2]), 0),
                            path |-> parts[3]])],
                       consumed + 1)
               ELSE Err("Invalid file change format", consumed)

\* CommitIterator::next (commit.rs:49-131) with `consumed` lines read before.
CommitIteratorNext(input, consumed) ==
    LET first == LineAt(input, consumed)
    IN IF ~IsSome(first) THEN [kind |-> "end", pos |-> consumed]
       ELSE IF Unwrap(first) # Sentinel THEN Err("Expected COMMIT", consumed + 1)
       ELSE LET meta == ReadMetadata(input, CommitInfoDefault, consumed + 1, 4)
            IN IF meta.kind = "err" THEN meta
               ELSE LET sep == ReadSeparator(input, meta.commit, meta.pos)
                    IN IF sep.kind = "err" THEN sep
                       ELSE ReadChanges(input, sep.commit, sep.pos)

\* The inputs: blocks as git prints them, and blocks with one defect.
CommitIds == <<"c1", "c2", "c3">>
ChangeLineLists ==
    {<<>>, <<NumericChange>>, <<BinaryChange>>, <<NumericChange, BinaryChange>>}

Block(k, ts, name, sep, changes) ==
    <<Sentinel, CommitIds[k], ts, name, "alice@x.com">> \o sep \o changes

WellFormedBlocks(k) ==
    {Block(k, m[1], m[2], <<Blank>>, ch) :
        m \in {<<"17", "Alice">>, <<"0", "Alice">>, <<"17", "">>},
        ch \in ChangeLineLists}
    \cup {Block(k, "17", "Alice", <<Spaces>>, <<NumericChange>>)}

MalformedBlocks(k) ==
    { Tail(Block(k, "17", "Alice", <<Blank>>, <<NumericChange>>)),
      SubSeq(Block(k, "17", "Alice", <<>>, <<>>), 1, 3),
      Block(k, "17", "Alice", <<Junk>>, <<NumericChange>>),
      Block(k, "17", "Alice", <<>>, <<>>),
      Block(k, "17", "Alice", <<>>, <<NumericChange>>),
      Block(k, "17", "Alice", <<Blank>>,
            <<NumericChange, TwoFieldChange, NumericChange>>) }

BlocksAt(k) == WellFormedBlocks(k) \cup MalformedBlocks(k)

Inputs ==
    UNION {{bs \in [1..n -> UNION {BlocksAt(k) : k \in 1..MaxBlocks}] :
                \A k \in 1..n : bs[k] \in BlocksAt(k)} : n \in 0..MaxBlocks}

RECURSIVE Flatten(_)
Flatten(bs) == IF bs = <<>> THEN <<>> ELSE Head(bs) \o Flatten(Tail(bs))

Input == Flatten(blocks)

ParserInit ==
    /\ blocks \in Inputs
    /\ pos = 0
    /\ results = <<>>
    /\ ResolverIdle /\ RunIdle /\ OwnerIdle /\ ContributorIdle /\ MemberIdle
    /\ PairedIdle /\ RankIdle /\ TsvIdle /\ FindIdle

Ended == results # <<>> /\ results[Len(results)].kind = "end"

\* next() returns Some(Ok(commit_info)).
ParserNextOk ==
    /\ CommitIteratorNext(Input, pos).kind = "ok"
    /\ results' = Append(results, [CommitIteratorNext(Input, pos)
                                      EXCEPT !.pos = <<pos, @>>])
    /\ pos' = CommitIteratorNext(Input, pos).pos
    /\ UNCHANGED <<blocks, resolverVars, runVars, ownerVars, contributorVars,
                   memberVars, pairedVars, rankVars,
                   tsvVars,
                   findVars>>

\* next() returns Some(Err(e)); the iterator stays as the call left it.
ParserNextErr ==
    /\ CommitIteratorNext(Input, pos).kind = "err"
    /\ results' = Append(results, [CommitIteratorNext(Input, pos)
                                      EXCEPT !.pos = <<pos, @>>])
    /\ pos' = CommitIteratorNext(Input, pos).pos
    /\ UNCHANGED <<blocks, resolverVars, runVars, ownerVars, contributorVars,
                   memberVars, pairedVars, rankVars,
                   tsvVars,
                   findVars>>

\* next() returns None at the end of the input, and again at every later call.
ParserNextEnd ==
    /\ CommitIteratorNext(Input, pos).kind = "end"
    /\ results' = IF Ended THEN results
                  ELSE Append(results, [kind |-> "end", pos |-> <<pos, pos>>])
    /\ UNCHANGED <<blocks, pos, resolverVars, runVars, ownerVars,
                   contributorVars, memberVars, pairedVars,
                   rankVars, tsvVars,
                   findVars>>

ParserNext == ParserNextOk \/ ParserNextErr \/ ParserNextEnd

SpecParser == ParserInit /\ [][ParserNext]_vars

-----------------------------------------------------------------------------
(* Claims about CommitIterator. *)

\* Lines of the input before block i, and up to its last line.
RECURSIVE BlockStart(_)
BlockStart(i) == IF i = 1 THEN 0 ELSE BlockStart(i - 1) + Len(blocks[i - 1])
BlockEnd(i) == BlockStart(i) + Len(blocks[i])

\* The shape of a block: a sentinel line, four metadata lines, a blank
\* separator, then lines of three tab-separated fields.
IsWellFormed(b) ==
    /\ Len(b) >= 6
    /\ b[1] = Sentinel
    /\ \A k \in 2..5 : Len(split(b[k])) = 1 /\ b[k] # Sentinel
    /\ trim(trim_end(b[6])) = ""
    /\ \A k \in 7..Len(b) : Len(split(b[k])) = 3

\* The file change a three-field line stands for.
ChangeOfLine(line) ==
    [insertions |-> IF split(line)[1] \in DOMAIN Digits
                    THEN Digits[split(line)[1]] ELSE 0,
     deletions |-> IF split(line)[2] \in DOMAIN Digits
                   THEN Digits[split(line)[2]] ELSE 0,
     path |-> split(line)[3]]

ExpectedChanges(b) == [k \in 1..(Len(b) - 6) |-> ChangeOfLine(b[6 + k])]

\* C12: for an input of n well-formed blocks the iterator yields exactly n Ok
\* records in input order, each with the change lines of its block in line
\* order, and then the end of the sequence; the empty input yields the end
\* at once.
C12_WellFormedBlocksYieldRecords ==
    (\A i \in 1..Len(blocks) : IsWellFormed(blocks[i])) =>
        /\ Len(results) <= Len(blocks) + 1
        /\ \A j \in 1..Len(results) :
              IF j <= Len(blocks)
              THEN /\ results[j].kind = "ok"
                   /\ results[j].commit.id = blocks[j][2]
                   /\ results[j].commit.file_changes = ExpectedChanges(blocks[j])
              ELSE results[j].kind = "end"

\* C28: the four lines after a sentinel are assigned by position whatever
\* they hold: the record of a block that starts the input has the first line
\* as id, the second as timestamp, the third as author name and the fourth
\* as author email, also for the timestamp 0 and for an empty author name,
\* and the call fails on none of the four lines.
C28_MetadataAssignedByPosition ==
    (blocks # <<>> /\ results # <<>>
        /\ blocks[1][1] = Sentinel /\ Len(blocks[1]) >= 5
        /\ blocks[1][3] \in DOMAIN Digits) =>
        LET b == blocks[1]
            r == results[1]
        IN /\ r.kind # "end"
           /\ r.pos[2] >= 5
           /\ r.kind = "ok" =>
                /\ r.commit.id = b[2]
                /\ r.commit.timestamp = Digits[b[3]]
                /\ r.commit.author_name = b[4]
                /\ r.commit.author_email = b[5]

\* The calls of next() that consumed a line of block i.
ResultsOver(i) ==
    {j \in 1..Len(results) :
        /\ results[j].pos[1] < BlockEnd(i)
        /\ results[j].pos[2] > BlockStart(i)}

\* The four defects of a block that the parser reports.
SentinelMissing(i) == blocks[i][1] # Sentinel
EndsInsideMetadata(i) ==
    /\ i = Len(blocks) /\ blocks[i][1] = Sentinel /\ Len(blocks[i]) < 5
NonBlankSeparator(i) ==
    /\ blocks[i][1] = Sentinel /\ Len(blocks[i]) >= 6
    /\ trim(trim_end(blocks[i][6])) # ""
BadChangeLine(i) ==
    /\ blocks[i][1] = Sentinel /\ Len(blocks[i]) >= 7
    /\ trim(trim_end(blocks[i][6])) = ""
    /\ \E k \in 7..Len(blocks[i]) : Len(split(blocks[i][k])) # 3

Malformed(i) ==
    \/ SentinelMissing(i) \/ EndsInsideMetadata(i)
    \/ NonBlankSeparator(i) \/ BadChangeLine(i)

\* C13: a block with one of the four defects (no sentinel where one is
\* expected, input ending inside the metadata, a non-blank line in the
\* separator position, a change line without exactly three fields) never
\* gives a commit record: every call that read a line of it returned an
\* error, and once the input is exhausted some call has.
C13_MalformedBlockGivesErrorOnly ==
    \A i \in 1..Len(blocks) :
        Malformed(i) =>
            /\ \A j \in ResultsOver(i) : results[j].kind = "err"
            /\ Ended => ResultsOver(i) # {}

\* C13 witness: the input is exhausted; its first block is well formed and
\* gave a record, its second has a change line of two fields and gave
\* errors only.
C13_Witness ==
    /\ Ended /\ Len(blocks) = 2
    /\ IsWellFormed(blocks[1]) /\ results[1].kind = "ok"
    /\ BadChangeLine(2)
    /\ \E j \in ResultsOver(2) :
          results[j].kind = "err" /\ results[j].msg = "Invalid file change format"

\* C14: a block without change lines whose metadata is directly followed by
\* the sentinel of the next block gives a record with an empty change list,
\* and the block after it is parsed as usual.
C14_OmittedSeparatorBeforeSentinel ==
    \A i \in 1..(Len(blocks) - 1) :
        (/\ \A k \in 1..(i - 1) : IsWellFormed(blocks[k]) /\ blocks[k][3] # "0"
         /\ Len(blocks[i]) = 5 /\ blocks[i][1] = Sentinel
         /\ IsWellFormed(blocks[i + 1]) /\ blocks[i + 1][3] # "0")
        => (/\ Len(results) >= i =>
                 /\ results[i].kind = "ok"
                 /\ results[i].commit.id = blocks[i][2]
                 /\ results[i].commit.file_changes = <<>>
            /\ Len(results) >= i + 1 =>
                 /\ results[i + 1].kind = "ok"
                 /\ results[i + 1].commit.id = blocks[i + 1][2]
                 /\ results[i + 1].commit.file_changes
                        = ExpectedChanges(blocks[i + 1]))

\* C15: a line of three tab-separated fields among the change lines of a
\* block never gives an error: the error about the change format is only
\* reported at a line that does not have three fields, and every change line
\* of a record is there with its path, a field that is not a number counted
\* as 0.
C15_ThreeFieldLineNeverAnError ==
    \A j \in 1..Len(results) :
        /\ (results[j].kind = "err"
              /\ results[j].msg = "Invalid file change format")
           => Len(split(trim_end(Input[results[j].pos[2] + 1]))) # 3
        /\ results[j].kind = "ok" =>
              LET from == results[j].pos[1]
                  to == results[j].pos[2]
              IN /\ Len(results[j].commit.file_changes) = Max(to - from - 6, 0)
                 /\ \A k \in (from + 7)..to :
                       /\ Len(split(trim_end(Input[k]))) = 3
                       /\ results[j].commit.file_changes[k - from - 6]
                              = ChangeOfLine(trim_end(Input[k]))

\* C15 witness: a record holds the change of a binary file, with 0
\* insertions and 0 deletions, after the change of a text file.
C15_Witness ==
    \E j \in 1..Len(results) :
        /\ results[j].kind = "ok"
        /\ results[j].commit.file_changes
               = <<[insertions |-> 1, deletions |-> 2, path |-> "a.go"],
                   [insertions |-> 0, deletions |-> 0, path |-> "img.png"]>>

\* C16: once a call of next() has returned an error, no later call returns a
\* commit record.
C16_NoRecordAfterError ==
    \A i, j \in 1..Len(results) :
        (i < j /\ results[i].kind = "err") => results[j].kind # "ok"

-----------------------------------------------------------------------------
(* update_top_contributors (analyze.rs:143): the two top lists of one pool
   of an owner. A pool is a HashMap from (name, email) to (changes, commits);
   it is held as the list of its entries, and the order in which
   contributors.iter() visits them is chosen at each call. *)

TopN == 10

ContributorNames ==
    <<"a01", "a02", "a03", "a04", "a05", "a06", "a07", "a08", "a09", "a10",
      "a11", "a12", "a13", "a14">>
ContributorKey(i) == <<ContributorNames[i], "dev@x.com">>

\* A pool of n contributors whose counts follow a pattern; no pool exists
\* for an owner that got no contribution of that kind.
Pool(n, first, a, b, m) ==
    IF n = 0 THEN None
    ELSE Some([i \in 1..n |->
                 [key |-> ContributorKey(first + i - 1),
                  changes |-> ((a * i + b) % m) + 1,
                  commits |-> ((b * i + a) % m) + 1]])

TeamPools ==
    {Pool(n, 1, a, b, m) : n \in {0, 1, TopN, TopN + 1, MaxPool},
                           a \in 0..2, b \in 0..2, m \in {1, 3, 13}}
OutsidePools ==
    {Pool(n, 2, 1, 2, m) : n \in {0, 2, TopN + 1}, m \in {1, 13}}

\* Orders in which a HashMap of n entries may be iterated.
IterationOrders(n) ==
    { [i \in 1..n |-> i], [i \in 1..n |-> n + 1 - i],
      [i \in 1..n |-> (i % n) + 1] }

\* contributors.iter().collect() under an iteration order
Collect(pool, ord) ==
    IF IsSome(pool)
    THEN Some([i \in 1..Len(Unwrap(pool)) |-> Unwrap(pool)[ord[i]]])
    ELSE None

\* slice::sort_by is stable: an entry goes behind the entries that do not
\* compare greater than it.
RECURSIVE SortInto(_, _, _, _)
SortInto(sorted, rest, metric, descending) ==
    IF rest = <<>> THEN sorted
    ELSE LET e == Head(rest)
             before == {i \in 1..Len(sorted) :
                          IF descending THEN sorted[i][metric] >= e[metric]
                          ELSE sorted[i][metric] <= e[metric]}
             k == Cardinality(before)
         IN SortInto(SubSeq(sorted, 1, k) \o <<e>>
                        \o SubSeq(sorted, k + 1, Len(sorted)),
                     Tail(rest), metric, descending)

\* A sort with the comparison the other way round.
sort_by_ascending(v, metric) == SortInto(<<>>, v, metric, FALSE)

\* contributors.sort_by(|a, b| b.cmp(a)) on the changes or the commits
sort_by_descending(v, metric) == SortInto(<<>>, v, metric, TRUE)

\* .iter().take(10)
take(v, n) == SubSeq(v, 1, IF Len(v) < n THEN Len(v) ELSE n)

ContributorToOwnerInfo(e, metric) ==
    [author_name |-> e.key[1], author_email |-> e.key[2],
     metric_value |-> e[metric]]

update_top_contributors(owner_info, collected, is_team) ==
    IF IsSome(collected)
    THEN LET by_changes == sort_by_descending(Unwrap(collected), "changes")
             top_by_changes ==
                 [i \in 1..Len(take(by_changes, TopN)) |->
                     ContributorToOwnerInfo(by_changes[i], "changes")]
             by_commits == sort_by_descending(by_changes, "commits")
             top_by_commits ==
                 [i \in 1..Len(take(by_commits, TopN)) |->
                     ContributorToOwnerInfo(by_commits[i], "commits")]
         IN IF is_team
            THEN [owner_info EXCEPT
                     !.top_team_contributors_by_changes = top_by_changes,
                     !.top_team_contributors_by_commits = top_by_commits]
            ELSE [owner_info EXCEPT
                     !.top_outside_contributors_by_changes = top_by_changes,
                     !.top_outside_contributors_by_commits = top_by_commits]
    ELSE owner_info

PoolSize(pool) == IF IsSome(pool) THEN Len(Unwrap(pool)) ELSE 0

\* The OwnerInfo of an owner with these pools when the loop over the commits
\* is over: the totals are those of the pools (all changes as insertions).
OwnerInfoOf(team, outside) ==
    LET total(pool, metric) ==
            IF IsSome(pool)
            THEN SumSeq([i \in 1..Len(Unwrap(pool)) |-> Unwrap(pool)[i][metric]])
            ELSE 0
    IN [NewOwnerInfo("@team1") EXCEPT
           !.total_insertions_by_team = total(team, "changes"),
           !.total_commits_by_team = total(team, "commits"),
           !.total_insertions_by_others = total(outside, "changes"),
           !.total_commits_by_others = total(outside, "commits")]

RankInit ==
    /\ rank_team \in TeamPools
    /\ rank_outside \in OutsidePools
    /\ rank_team # None \/ rank_outside # None
    /\ rank_info = OwnerInfoOf(rank_team, rank_outside)
    /\ rank_step = 0
    /\ ResolverIdle /\ RunIdle /\ OwnerIdle /\ ContributorIdle /\ MemberIdle
    /\ PairedIdle /\ ParserIdle /\ TsvIdle /\ FindIdle

\* analyze.rs:121: update_top_contributors(owner_info, team pool, true)
RankTeam ==
    /\ rank_step = 0
    /\ \E ord \in IterationOrders(PoolSize(rank_team)) :
          rank_info' = update_top_contributors(rank_info,
                           Collect(rank_team, ord), TRUE)
    /\ rank_step' = 1
    /\ UNCHANGED <<rank_team, rank_outside, resolverVars, runVars, ownerVars,
                   contributorVars, memberVars, pairedVars, parserVars,
                   tsvVars,
                   findVars>>

\* analyze.rs:122: update_top_contributors(owner_info, outside pool, false)
RankOutside ==
    /\ rank_step = 1
    /\ \E ord \in IterationOrders(PoolSize(rank_outside)) :
          rank_info' = update_top_contributors(rank_info,
                           Collect(rank_outside, ord), FALSE)
    /\ rank_step' = 2
    /\ UNCHANGED <<rank_team, rank_outside, resolverVars, runVars, ownerVars,
                   contributorVars, memberVars, pairedVars, parserVars,
                   tsvVars,
                   findVars>>

RankNext == RankTeam \/ RankOutside

SpecRank == RankInit /\ [][RankNext]_vars

\* The entries of a pool, none for a pool that does not exist.
Entries(pool) == IF IsSome(pool) THEN Range(Unwrap(pool)) ELSE {}

\* A top list is right for a pool and a metric: at most ten entries, the
\* metric never increasing, every entry a contributor of the pool with the
\* pool's count, and no contributor left out whose count is greater than a
\* listed one.
TopListRight(list, pool, metric) ==
    /\ Len(list) <= 10
    /\ \A i, j \in 1..Len(list) :
          i < j => list[i].metric_value >= list[j].metric_value
    /\ \A i \in 1..Len(list) :
          \E e \in Entries(pool) :
             /\ e.key = <<list[i].author_name, list[i].author_email>>
             /\ e[metric] = list[i].metric_value
    /\ \A e \in Entries(pool) :
          (\A i \in 1..Len(list) :
              e.key # <<list[i].author_name, list[i].author_email>>)
          => \A i \in 1..Len(list) : e[metric] <= list[i].metric_value

\* C17: each of the four contributor lists of an owner row has at most ten
\* entries in non-increasing order of its metric, lists only contributors of
\* its own pool, and leaves out no contributor whose metric is greater than
\* that of a listed one.
C17_TopListsBoundedSortedFromPool ==
    /\ rank_step >= 1 =>
          /\ TopListRight(rank_info.top_team_contributors_by_changes,
                          rank_team, "changes")
          /\ TopListRight(rank_info.top_team_contributors_by_commits,
                          rank_team, "commits")
    /\ rank_step >= 2 =>
          /\ TopListRight(rank_info.top_outside_contributors_by_changes,
                          rank_outside, "changes")
          /\ TopListRight(rank_info.top_outside_contributors_by_commits,
                          rank_outside, "commits")

\* C17 witness: both pools have more than ten contributors, the counts of
\* the team pool not all equal; the four lists have ten entries each and a
\* team contributor with fewer changes than every listed one is left out.
C17_Witness ==
    /\ rank_step = 2
    /\ PoolSize(rank_team) > 10 /\ PoolSize(rank_outside) > 10
    /\ Len(rank_info.top_team_contributors_by_changes) = 10
    /\ Len(rank_info.top_team_contributors_by_commits) = 10
    /\ Len(rank_info.top_outside_contributors_by_changes) = 10
    /\ Len(rank_info.top_outside_contributors_by_commits) = 10
    /\ \E e \in Entries(rank_team) :
          \A i \in 1..10 :
             e.changes < rank_info.top_team_contributors_by_changes[i].metric_value

\* C18: the lists of an owner row are a function of the pools alone: whatever
\* order the hash maps are iterated in, they are the lists that one fixed
\* order gives, ties and the cut after the tenth entry included.
C18_ListsIndependentOfIterationOrder ==
    rank_step = 2 =>
        rank_info = update_top_contributors(
                        update_top_contributors(
                            OwnerInfoOf(rank_team, rank_outside),
                            rank_team, TRUE),
                        rank_outside, FALSE)

-----------------------------------------------------------------------------
(* The reports: what analyze_by_owner and analyze_by_contributor return when
   the commit stream ends. *)

\* The strings of the model in the order of String::cmp (byte order).
StringOrder == <<"", "<unowned>", "@team1", "@team2", "Alice", "Bob">>
string_rank(str) == CHOOSE i \in 1..Len(StringOrder) : StringOrder[i] = str

\* slice::sort_by on an integer key, ascending and stable.
RECURSIVE SortByKeyInto(_, _, _)
SortByKeyInto(sorted, rest, key) ==
    IF rest = <<>> THEN sorted
    ELSE LET e == Head(rest)
             k == Cardinality({i \in 1..Len(sorted) : key[sorted[i]] <= key[e]})
         IN SortByKeyInto(SubSeq(sorted, 1, k) \o <<e>>
                             \o SubSeq(sorted, k + 1, Len(sorted)),
                          Tail(rest), key)

\* A sort of the rows that leaves them in the order they were collected in.
sort_by_owner_unsorted(v) == v

\* sorted_owners.sort_by(|a, b| a.owner.cmp(&b.owner))
sort_by_owner(v) ==
    SortByKeyInto(<<>>, v, [e \in Range(v) |-> string_rank(e.owner)])

\* result.sort_by(|a, b| a.author_name.cmp(&b.author_name))
sort_by_author_name(v) ==
    SortByKeyInto(<<>>, v, [e \in Range(v) |-> string_rank(e.author_name)])

\* A sort of the breakdowns that leaves them in the order of first use.
sort_by_total_commits_unsorted(v) == v

\* contributions.sort_by(|a, b| b.total_commits.cmp(&a.total_commits))
sort_by_total_commits(v) == SortInto(<<>>, v, "total_commits", TRUE)

\* The orders in which a HashMap with the key set S may be iterated.
IterationsOf(S) ==
    {ord \in [1..Cardinality(S) -> S] :
        \A i, j \in 1..Cardinality(S) : i # j => ord[i] # ord[j]}

\* team_contributors.get(owner), iterated in the order ord of the authors.
PoolGet(pools, owner, ord) ==
    IF owner \in DOMAIN pools
    THEN LET keys == SelectSeq(ord, LAMBDA k : k \in DOMAIN pools[owner])
         IN Some([i \in 1..Len(keys) |->
                     [key |-> keys[i],
                      changes |-> pools[owner][keys[i]][1],
                      commits |-> pools[owner][keys[i]][2]]])
    ELSE None

\* analyze.rs:119-127: the top lists are filled in, the rows are collected
\* from the map and sorted by owner.
analyze_by_owner_return(st, row_order, pool_order) ==
    LET filled(o) ==
            update_top_contributors(
                update_top_contributors(st.owners[o],
                    PoolGet(st.team, o, pool_order), TRUE),
                PoolGet(st.outside, o, pool_order), FALSE)
    IN sort_by_owner([i \in 1..Len(row_order) |-> filled(row_order[i])])

\* analyze.rs:268-283: each entry becomes a row with its breakdowns sorted,
\* and the rows are sorted by author name.
analyze_by_contributor_return(cs, row_order) ==
    sort_by_author_name(
        [i \in 1..Len(row_order) |->
            [author_name |-> row_order[i][1],
             author_email |-> row_order[i][2],
             contributions |-> sort_by_total_commits(cs[row_order[i]])]])

\* The commit stream ends and analyze_by_owner returns its report.
OwnerReturn ==
    /\ owner_report = None
    /\ \E row_order \in IterationsOf(DOMAIN owners),
          pool_order \in IterationsOf(AuthorKeys) :
          owner_report' = Some(analyze_by_owner_return(OwnerState, row_order,
                                                       pool_order))
    /\ UNCHANGED <<owners, team_contributors, outside_contributors, prev_owners,
                   seen_rows, authored, resolverVars, runVars, contributorVars,
                   memberVars, otherVars>>

OwnerNext == OwnerCommit \/ OwnerReturn

SpecOwner == OwnerInit /\ [][OwnerNext]_vars

\* The commit stream ends and analyze_by_contributor returns its report.
ContributorReturn ==
    /\ contributor_report = None
    /\ \E row_order \in IterationsOf(DOMAIN contributors) :
          contributor_report' =
              Some(analyze_by_contributor_return(contributors, row_order))
    /\ UNCHANGED <<contributors, prev_contributors, seen_keys, resolverVars,
                   runVars, ownerVars, memberVars, otherVars>>

ContributorNext == ContributorCommit \/ ContributorReturn

SpecContributor == ContributorInit /\ [][ContributorNext]_vars

PairedNext == PairedCommit

SpecPaired == PairedInit /\ [][PairedNext]_vars

\* C23: analyze_by_owner returns exactly one row for every owner group that
\* is in the owner list of at least one change of the commits it processed,
\* no other row, and the rows in strictly ascending order of owner name.
C23_OneRowPerOwnerSortedByName ==
    IsSome(owner_report) =>
        LET rows == Unwrap(owner_report)
        IN /\ \A i \in 1..Len(rows) : rows[i].owner \in OwnerNames
           /\ \A o \in OwnerNames :
                 Cardinality({i \in 1..Len(rows) : rows[i].owner = o})
                     = IF seen_rows[o] > 0 THEN 1 ELSE 0
           /\ \A i, j \in 1..Len(rows) :
                 i < j => string_rank(rows[i].owner) < string_rank(rows[j].owner)

\* C23 witness: two commits were processed, one owner group is first met in
\* the second one, and the report has a row for each of the two groups.
C23_Witness ==
    /\ IsSome(owner_report) /\ ncommits = 2
    /\ Len(Unwrap(owner_report)) = 2
    /\ DOMAIN prev_owners # DOMAIN owners

\* The author keys of the processed commits that have at least one change.
KeysWithChanges == seen_keys

RowKey(row) == <<row.author_name, row.author_email>>

\* C24: analyze_by_contributor returns exactly one row for every (author
\* name, author email) pair of a processed commit that has at least one
\* change, and no other row; no row has two breakdowns for the same owner
\* bucket, and the breakdowns of a row never increase in total commit count.
C24_OneRowPerAuthorBreakdownsSorted ==
    IsSome(contributor_report) =>
        LET rows == Unwrap(contributor_report)
        IN /\ \A i \in 1..Len(rows) : RowKey(rows[i]) \in KeysWithChanges
           /\ \A key \in KeysWithChanges :
                 Cardinality({i \in 1..Len(rows) : RowKey(rows[i]) = key}) = 1
           /\ \A i \in 1..Len(rows) :
                 \A a, b \in 1..Len(rows[i].contributions) :
                    a < b =>
                       /\ rows[i].contributions[a].owner
                              # rows[i].contributions[b].owner
                       /\ rows[i].contributions[a].total_commits
                              >= rows[i].contributions[b].total_commits

\* C24 witness: after two commits of one author the report has a row whose
\* breakdowns the final sort has reordered.
C24_Witness ==
    /\ IsSome(contributor_report)
    /\ ncommits = 2 /\ Cardinality(seen_keys) = 1
    /\ adjusted
    /\ \E i \in 1..Len(Unwrap(contributor_report)) :
          LET row == Unwrap(contributor_report)[i]
          IN /\ Len(row.contributions) >= 2
             /\ row.contributions # contributors[RowKey(row)]

\* The sum of a count over the contributors of an owner's pool.
PoolSum(pools, o, n) ==
    LET pool == Get(pools, o, EmptyMap)
    IN SumOver(DOMAIN pool, [k \in DOMAIN pool |-> pool[k][n]])

\* C29: after any sequence of commits, for every owner group and each of its
\* two pools, the cumulative changes of the pool's contributors add up to the
\* pool's insertions total plus its deletions total, their commit counts add
\* up to the pool's commit counter, and a contributor is in a pool of an
\* owner only if they authored a change owned by that owner.
C29_PoolsAddUpToTotals ==
    \A o \in OwnerNames :
        /\ PoolSum(team_contributors, o, 1)
               = Info(owners, o).total_insertions_by_team
                     + Info(owners, o).total_deletions_by_team
        /\ PoolSum(team_contributors, o, 2) = Info(owners, o).total_commits_by_team
        /\ PoolSum(outside_contributors, o, 1)
               = Info(owners, o).total_insertions_by_others
                     + Info(owners, o).total_deletions_by_others
        /\ PoolSum(outside_contributors, o, 2)
               = Info(owners, o).total_commits_by_others
        /\ \A k \in DOMAIN Get(team_contributors, o, EmptyMap)
                      \cup DOMAIN Get(outside_contributors, o, EmptyMap) :
              <<k, o>> \in authored

\* C29 witness: after two commits an owner has a team pool and an outside
\* pool, and a contributor with deletions counted in its cumulative changes.
C29_Witness ==
    /\ ncommits = 2
    /\ \E o \in OwnerNames :
          /\ o \in DOMAIN team_contributors /\ o \in DOMAIN outside_contributors
          /\ Info(owners, o).total_deletions_by_team > 0
          /\ Info(owners, o).total_insertions_by_others > 0
          /\ \E k \in AuthorKeys : <<k, o>> \notin authored

\* The fields of a report row that do not belong to adjusted mode.
RawRow(info) ==
    <<info.owner,
      info.total_insertions_by_team, info.total_deletions_by_team,
      info.total_commits_by_team,
      info.total_insertions_by_others, info.total_deletions_by_others,
      info.total_commits_by_others,
      info.top_team_contributors_by_changes,
      info.top_team_contributors_by_commits,
      info.top_outside_contributors_by_changes,
      info.top_outside_contributors_by_commits>>

RawBreakdown(c) ==
    <<c.owner, c.total_insertions, c.total_deletions, c.total_commits>>

RawRows(report) == [i \in 1..Len(report) |-> RawRow(report[i])]

RawBreakdowns(cs) ==
    [key \in DOMAIN cs |->
        [i \in 1..Len(cs[key]) |-> RawBreakdown(cs[key][i])]]

\* The run that is in adjusted mode and the run that is not: one is the run
\* of the model, the other the run over the same commits with the flag
\* negated.
ThisRun == [by_owner |-> OwnerState, by_contributor |-> contributors]
AdjustedRun == IF adjusted THEN ThisRun ELSE flipped
PlainRun == IF adjusted THEN flipped ELSE ThisRun

\* Without the flag every adjusted field of both reports is 0.
PlainRunHasNoAdjustedValues ==
    /\ \A o \in DOMAIN PlainRun.by_owner.owners :
          LET info == PlainRun.by_owner.owners[o]
          IN /\ info.adjusted_changes_by_team = 0
             /\ info.adjusted_commits_by_team = 0
             /\ info.adjusted_changes_by_others = 0
             /\ info.adjusted_commits_by_others = 0
    /\ \A key \in DOMAIN PlainRun.by_contributor :
          \A i \in 1..Len(PlainRun.by_contributor[key]) :
             /\ PlainRun.by_contributor[key][i].adjusted_changes = 0
             /\ PlainRun.by_contributor[key][i].adjusted_commits = 0

\* With the flag every adjusted_changes field is the raw insertions total.
AdjustedChangesAreInsertions ==
    /\ \A o \in DOMAIN AdjustedRun.by_owner.owners :
          LET info == AdjustedRun.by_owner.owners[o]
          IN /\ info.adjusted_changes_by_team = info.total_insertions_by_team
             /\ info.adjusted_changes_by_others = info.total_insertions_by_others
    /\ \A key \in DOMAIN AdjustedRun.by_contributor :
          \A i \in 1..Len(AdjustedRun.by_contributor[key]) :
             AdjustedRun.by_contributor[key][i].adjusted_changes
                 = AdjustedRun.by_contributor[key][i].total_insertions

\* The raw totals and counters of the two runs are the same.
RawTotalsAgree ==
    /\ DOMAIN AdjustedRun.by_owner.owners = DOMAIN PlainRun.by_owner.owners
    /\ \A o \in DOMAIN PlainRun.by_owner.owners :
          RawRow(AdjustedRun.by_owner.owners[o])
              = RawRow(PlainRun.by_owner.owners[o])
    /\ AdjustedRun.by_owner.team = PlainRun.by_owner.team
    /\ AdjustedRun.by_owner.outside = PlainRun.by_owner.outside
    /\ RawBreakdowns(AdjustedRun.by_contributor)
           = RawBreakdowns(PlainRun.by_contributor)

\* C30: adjusted mode only adds: without the flag every adjusted_changes and
\* adjusted_commits field of both reports is 0; over the same commits the
\* raw totals, the commit counters and the top-10 lists of the report with
\* the flag are those of the report without it, whatever order each run
\* iterates its hash maps in; with the flag every adjusted_changes field
\* equals the raw insertions total next to it.
C30_AdjustedModeIsAdditive ==
    /\ PlainRunHasNoAdjustedValues
    /\ AdjustedChangesAreInsertions
    /\ RawTotalsAgree
    /\ \A rows_a \in IterationsOf(DOMAIN AdjustedRun.by_owner.owners),
          rows_p \in IterationsOf(DOMAIN PlainRun.by_owner.owners),
          pool_a \in IterationsOf(AuthorKeys),
          pool_p \in IterationsOf(AuthorKeys) :
          RawRows(analyze_by_owner_return(AdjustedRun.by_owner, rows_a, pool_a))
              = RawRows(analyze_by_owner_return(PlainRun.by_owner, rows_p, pool_p))

-----------------------------------------------------------------------------
(* The roster file: write_memberships_to_tsv (owner.rs:213) and
   read_memberships_from_tsv (owner.rs:231). A text is the sequence of its
   pieces; a piece is a tab, a newline, or a run of other characters. *)

TabChar == "\t"
NewlineChar == "\n"
EmptyText == <<>>

\* membership.author_email.as_deref().unwrap_or("")
as_deref_unwrap_or_empty(opt) == IF IsSome(opt) THEN Unwrap(opt) ELSE EmptyText

\* writeln!(file, "{}\t{}\t{}", ..) and writeln!(file, header)
writeln(file, text) == file \o text \o <<NewlineChar>>

TsvHeader == <<"author_email", TabChar, "author_name", TabChar, "codeowner">>

FormatMembership(membership) ==
    as_deref_unwrap_or_empty(membership.author_email) \o <<TabChar>>
        \o as_deref_unwrap_or_empty(membership.author_name) \o <<TabChar>>
        \o membership.codeowner

RECURSIVE WriteMemberships(_, _)
WriteMemberships(file, ms) ==
    IF ms = <<>> THEN file
    ELSE WriteMemberships(writeln(file, FormatMembership(Head(ms))), Tail(ms))

write_memberships_to_tsv(ms) == WriteMemberships(writeln(EmptyText, TsvHeader), ms)

\* str::split(sep): the pieces between the separators, at least one.
RECURSIVE SplitText(_, _, _)
SplitText(text, sep, current) ==
    IF text = <<>> THEN <<current>>
    ELSE IF Head(text) = sep
    THEN <<current>> \o SplitText(Tail(text), sep, EmptyText)
    ELSE SplitText(Tail(text), sep, Append(current, Head(text)))

\* BufRead::lines(): the text up to each newline; a last line without a
\* newline counts when it is not empty.
lines(file) ==
    LET pieces == SplitText(file, NewlineChar, EmptyText)
    IN IF pieces[Len(pieces)] = EmptyText
       THEN SubSeq(pieces, 1, Len(pieces) - 1) ELSE pieces

\* The loop of read_memberships_from_tsv (owner.rs:241-263).
RECURSIVE ReadLines(_, _)
ReadLines(ls, ms) ==
    IF ls = <<>> THEN [kind |-> "ok", memberships |-> ms]
    ELSE LET parts == SplitText(Head(ls), TabChar, EmptyText)
         IN IF Len(parts) # 3
            THEN [kind |-> "err", line |-> Head(ls)]
            ELSE ReadLines(Tail(ls),
                    Append(ms,
                       [author_email |-> IF parts[1] = EmptyText THEN None
                                         ELSE Some(parts[1]),
                        author_name |-> IF parts[2] = EmptyText THEN None
                                        ELSE Some(parts[2]),
                        codeowner |-> parts[3]]))

\* A reader that parses the first line as an entry.
read_memberships_from_tsv_header_parsed(file) == ReadLines(lines(file), <<>>)

read_memberships_from_tsv(file) ==
    LET ls == lines(file)
    IN ReadLines(IF ls = <<>> THEN <<>> ELSE Tail(ls), <<>>)

\* The rosters of the model: a field is absent, empty (get_user_info gives
\* the email "" to a user without a public email), or a text.
TsvEmails == {None, Some(EmptyText), Some(<<"alice@x.com">>)}
TsvNames == {None, Some(<<"Alice">>)}
TsvOwners == {<<"@org/team1">>, <<"@org/team2">>}
TsvRosters ==
    UNION { [1..n -> [author_email : TsvEmails, author_name : TsvNames,
                      codeowner : TsvOwners]] : n \in 0..MaxRoster }

TsvInit ==
    /\ tsv_roster \in TsvRosters
    /\ tsv_file = None
    /\ tsv_read = None
    /\ tsv_input = None
    /\ ResolverIdle /\ RunIdle /\ OwnerIdle /\ ContributorIdle /\ MemberIdle
    /\ PairedIdle /\ ParserIdle /\ RankIdle /\ FindIdle

\* write_memberships_to_tsv(&memberships, path): File::create truncates. What
\* an earlier read returned is dropped with the file it was read from.
TsvWrite ==
    /\ tsv_file' = Some(write_memberships_to_tsv(tsv_roster))
    /\ tsv_read' = None
    /\ tsv_input' = None
    /\ UNCHANGED <<tsv_roster, resolverVars, runVars, ownerVars,
                   contributorVars, memberVars, pairedVars, parserVars,
                   rankVars,
                   findVars>>

\* Lines a user may put into the roster file by hand: two fields, four
\* fields, a blank line, and three fields.
EditLines ==
    { <<"bob@x.com", TabChar, "@org/team1">>,
      <<"bob@x.com", TabChar, "Bob", TabChar, "@org/team1", TabChar, "x">>,
      EmptyText,
      <<"bob@x.com", TabChar, "Bob", TabChar, "@org/team1">> }

RECURSIVE JoinLines(_)
JoinLines(ls) ==
    IF ls = <<>> THEN EmptyText
    ELSE Head(ls) \o <<NewlineChar>> \o JoinLines(Tail(ls))

\* The file with line put in as its i-th line.
InsertLine(file, i, line) ==
    LET ls == lines(file)
    IN JoinLines(SubSeq(ls, 1, i - 1) \o <<line>> \o SubSeq(ls, i, Len(ls)))

\* The user edits the written file: one line is added somewhere.
TsvEdit ==
    /\ tsv_file = Some(write_memberships_to_tsv(tsv_roster))
    /\ \E i \in 1..(Len(lines(Unwrap(tsv_file))) + 1), line \in EditLines :
          tsv_file' = Some(InsertLine(Unwrap(tsv_file), i, line))
    /\ tsv_read' = None
    /\ tsv_input' = None
    /\ UNCHANGED <<tsv_roster, resolverVars, runVars, ownerVars,
                   contributorVars, memberVars, pairedVars, parserVars,
                   rankVars,
                   findVars>>

\* read_memberships_from_tsv(path) on the file as it is.
TsvRead ==
    /\ IsSome(tsv_file)
    /\ tsv_read' = Some(read_memberships_from_tsv(Unwrap(tsv_file)))
    /\ tsv_input' = tsv_file
    /\ UNCHANGED <<tsv_roster, tsv_file, resolverVars, runVars, ownerVars,
                   contributorVars, memberVars, pairedVars, parserVars,
                   rankVars,
                   findVars>>

TsvNext == TsvWrite \/ TsvEdit \/ TsvRead

SpecTsv == TsvInit /\ [][TsvNext]_vars

\* C19: writing a roster and reading the file back gives the same tuples
\* (email or none, name or none, owner group) in the same order, for any
\* roster.
C19_ReadOfWriteIsRoster ==
    (IsSome(tsv_read) /\ tsv_input = Some(write_memberships_to_tsv(tsv_roster))) =>
        /\ Unwrap(tsv_read).kind = "ok"
        /\ Unwrap(tsv_read).memberships = tsv_roster

\* The lines of the file after the first, and those of them that do not
\* have exactly three tab-separated fields.
DataLines(file) ==
    LET ls == lines(file) IN IF ls = <<>> THEN <<>> ELSE Tail(ls)

InvalidLines(file) ==
    {i \in 1..Len(DataLines(file)) :
        Len(SplitText(DataLines(file)[i], TabChar, EmptyText)) # 3}

\* C25: read_memberships_from_tsv never parses the first line; when a later
\* line does not have exactly three tab-separated fields the result is an
\* error that carries the first such line and holds no entry, not even those
\* of the lines before it; otherwise it is one entry per later line.
C25_HeaderSkippedBadLineIsError ==
    IsSome(tsv_read) =>
        LET file == Unwrap(tsv_input)
            got == Unwrap(tsv_read)
            bad == InvalidLines(file)
        IN /\ bad # {} =>
                /\ got.kind = "err"
                /\ got.line = DataLines(file)[CHOOSE i \in bad :
                                                 \A j \in bad : i <= j]
                /\ DOMAIN got = {"kind", "line"}
           /\ bad = {} =>
                /\ got.kind = "ok"
                /\ Len(got.memberships) = Len(DataLines(file))

\* C25 witness: a line of two fields was put after two good entries, and the
\* read has returned the error with that line.
C25_Witness ==
    /\ IsSome(tsv_read) /\ Len(tsv_roster) = 2
    /\ Unwrap(tsv_read).kind = "err"
    /\ InvalidLines(Unwrap(tsv_input)) = {3}
    /\ Unwrap(tsv_read).line = <<"bob@x.com", TabChar, "@org/team1">>

-----------------------------------------------------------------------------
(* The commits at the ends of a date range: find_first_commit_on_or_after_date
   (lib.rs:31) and find_last_commit_before_date (lib.rs:73) over a revwalk
   from HEAD. A commit is a number, its parents are smaller numbers, and its
   commit time is a number of seconds. *)

MaxRepo == 3
Times == 1..3
Dates == 1..4

\* A commit other than the first has one or two parents.
ParentSets(i) ==
    IF i = 1 THEN {{}}
    ELSE {P \in SUBSET (1..(i - 1)) : Cardinality(P) \in {1, 2}}

Repos ==
    UNION { {[parents |-> ps, time |-> ts, head |-> h] :
                ps \in {f \in [1..n -> SUBSET (1..n)] :
                           \A i \in 1..n : f[i] \in ParentSets(i)},
                ts \in [1..n -> Times],
                h \in 1..n} : n \in 1..MaxRepo }

\* walk.push_head(): the commits reachable from HEAD.
RECURSIVE Ancestors(_, _)
Ancestors(r, S) ==
    LET more == S \cup UNION {r.parents[c] : c \in S}
    IN IF more = S THEN S ELSE Ancestors(r, more)

Reachable(r) == Ancestors(r, {r.head})

\* A walk that yields the commits in any order.
revwalk_time_unsorted(r) == IterationsOf(Reachable(r))

\* walk.set_sorting(Sort::TIME): the reachable commits by commit time, newest
\* first; commits of the same time come in either order.
revwalk_time(r) ==
    {w \in IterationsOf(Reachable(r)) :
        \A i, j \in 1..Len(w) : i < j => r.time[w[i]] >= r.time[w[j]]}

Reverse(w) == [i \in 1..Len(w) |-> w[Len(w) + 1 - i]]

\* A walk by commit time that is not reversed.
revwalk_time_not_reversed(r) ==
    {w \in IterationsOf(Reachable(r)) :
        \A i, j \in 1..Len(w) : i < j => r.time[w[i]] >= r.time[w[j]]}

\* walk.set_sorting(Sort::TIME | Sort::REVERSE): the same walks backwards.
revwalk_time_reverse(r) == {Reverse(w) : w \in revwalk_time(r)}

\* The loop of find_first_commit_on_or_after_date (lib.rs:41-52).
RECURSIVE FindFirstLoop(_, _, _, _)
FindFirstLoop(walk, r, d, result) ==
    IF walk = <<>> THEN result
    ELSE LET commit == Head(walk)
             commit_date == r.time[commit]
         IN IF commit_date >= d
            THEN FindFirstLoop(Tail(walk), r, d, Some(commit))
            ELSE result

find_first_commit_on_or_after_date(r, d, walk) == FindFirstLoop(walk, r, d, None)

\* The loop of find_last_commit_before_date (lib.rs:83-94).
RECURSIVE FindLastLoop(_, _, _, _)
FindLastLoop(walk, r, d, last_commit) ==
    IF walk = <<>> THEN last_commit
    ELSE LET commit == Head(walk)
             commit_date == r.time[commit]
         IN IF commit_date >= d
            THEN last_commit
            ELSE FindLastLoop(Tail(walk), r, d, Some(commit))

find_last_commit_before_date(r, d, walk) == FindLastLoop(walk, r, d, None)

FindInit ==
    /\ repo \in Repos
    /\ date \in Dates
    /\ first_found = None
    /\ last_found = None
    /\ ResolverIdle /\ RunIdle /\ OwnerIdle /\ ContributorIdle /\ MemberIdle
    /\ PairedIdle /\ ParserIdle /\ RankIdle /\ TsvIdle

FindFirst ==
    /\ first_found = None
    /\ \E walk \in revwalk_time(repo) :
          first_found' = Some(find_first_commit_on_or_after_date(repo, date, walk))
    /\ UNCHANGED <<repo, date, last_found, resolverVars, runVars, ownerVars,
                   contributorVars, memberVars, pairedVars, parserVars,
                   rankVars, tsvVars>>

FindLast ==
    /\ last_found = None
    /\ \E walk \in revwalk_time_reverse(repo) :
          last_found' = Some(find_last_commit_before_date(repo, date, walk))
    /\ UNCHANGED <<repo, date, first_found, resolverVars, runVars, ownerVars,
                   contributorVars, memberVars, pairedVars, parserVars,
                   rankVars, tsvVars>>

FindNext == FindFirst \/ FindLast

SpecFind == FindInit /\ [][FindNext]_vars

\* The reachable commits dated on or after the date, and those before it.
OnOrAfter == {c \in Reachable(repo) : repo.time[c] >= date}
Before == {c \in Reachable(repo) : repo.time[c] < date}

C27_LastBeforeIsNewest ==
    IsSome(last_found) =>
        LET found == Unwrap(last_found)
        IN /\ found = None <=> Before = {}
           /\ IsSome(found) =>
                /\ Unwrap(found) \in Before
                /\ \A c \in Before : repo.time[c] <= repo.time[Unwrap(found)]
           /\ Before = Reachable(repo) =>
                /\ IsSome(found)
                /\ \A c \in Reachable(repo) :
                      repo.time[c] <= repo.time[Unwrap(found)]

\* C27 witness: of three reachable commits two are before the date, and the
\* later of the two is returned, which is not HEAD.
C27_Witness ==
    /\ IsSome(last_found) /\ IsSome(Unwrap(last_found))
    /\ Cardinality(Reachable(repo)) = 3
    /\ Cardinality(Before) = 2
    /\ Unwrap(Unwrap(last_found)) # repo.head
    /\ \E c \in Before : repo.time[c] < repo.time[Unwrap(Unwrap(last_found))]

====
